---- MODULE Spec2Model ----
(***************************************************************************)
(* Playback state machine of the cs40l26 vibrator HAL (Vibrator.cpp):      *)
(* the public calls on / performEffect / off / setAmplitude, the internal  *)
(* start operation on(), and the background completion task                *)
(* waitForComplete, together with the hardware they drive.                 *)
(*                                                                         *)
(* A caller thread walks through a call in the steps at which other        *)
(* threads can interleave: the bounded wait on mAsyncHandle, the unlocked  *)
(* upload/edit section, the section under mActiveId_mutex, the release of  *)
(* the mutex, std::async, and the move-assignment to mAsyncHandle.         *)
(* The hardware commands a step issues are recorded, with their arguments  *)
(* and outcomes, in the call's frame until the call's next step.           *)
(***************************************************************************)
EXTENDS Integers, Sequences, FiniteSets, TLC

\* ---------------------------------------------------------------- bounds
MaxTasks == 2            \* shared states of completion tasks alive at a time
MaxOwt == 1              \* dynamic slots one actuator can hold
CalLongVolMax == 80      \* calibration value mLongEffectVol[1]
ClickVolLevel == 60      \* volume level handed to performEffect for a click
ShortTimeoutMs == 20     \* an on(timeoutMs) request below the long threshold
LongTimeoutMs == 100     \* an on(timeoutMs) request at or above it
HalfAmplitude == 50      \* setAmplitude(0.5), in percent
CalF0Offset == 5         \* a nonzero calibrated F0 offset of the base
CalF0OffsetDual == 7     \* a nonzero calibrated F0 offset of the flip
CalLongVolMin == 20      \* calibration value mLongEffectVol[0]
CalTickVolMin == 5       \* calibration value mTickEffectVol[0]
CalTickVolMax == 50      \* calibration value mTickEffectVol[1]
CalClickVolMin == 10     \* calibration value mClickEffectVol[0]
CalClickVolMax == 90     \* calibration value mClickEffectVol[1]
MaxComposeLen == 2       \* entries of the short compositions given to compose
SomeDelayMs == 50        \* a delay inside the accepted range
MaxPwleLen == 2          \* primitives of the short envelopes given to composePwle
SomeDurationMs == 100    \* the duration of a ramp
SomeBrakeMs == 20        \* the duration of a braking hold
SomeFrequencyHz == 50    \* a frequency inside the accepted range
MaxWrites == 2           \* write() calls behind the one that sets the fill level
SlowLen == 7             \* entries of the slow compositions given to compose
MaxChunkSegments == 2    \* segments of a chunk whose header is updated
MaxScaleAmplitude == 120 \* the dense range of amplitudes given to amplitudeToScale
HighClickVolMax == 120   \* a calibration value mClickEffectVol[1] above the scale

\* ------------------------------------------------------ program constants
WAVEFORM_LONG_VIBRATION_EFFECT_INDEX == 0
WAVEFORM_CLICK_INDEX == 2
WAVEFORM_SHORT_VIBRATION_EFFECT_INDEX == 3
WAVEFORM_LIGHT_TICK_INDEX == 9
WAVEFORM_MAX_PHYSICAL_INDEX == 14
WAVEFORM_COMPOSE == 14
WAVEFORM_PWLE == 15
WAVEFORM_MAX_INDEX == 16
FF_MAX_EFFECTS == 96
MAX_TIME_MS == 65535
VOLTAGE_SCALE_MAX == 100
WAVEFORM_LONG_VIBRATION_THRESHOLD_MS == 50
FF_CUSTOM_DATA_LEN_MAX_COMP == 2044
FF_CUSTOM_DATA_LEN_MAX_PWLE == 2302
MAX_COLD_START_LATENCY_MS == 6
COMPOSE_DELAY_MAX_MS == 10000
COMPOSE_SIZE_MAX == 254
COMPOSE_PWLE_SIZE_MAX_DEFAULT == 127
COMPOSE_PWLE_PRIMITIVE_DURATION_MAX_MS == 16383
WT_LEN_CALCD == 8388608
PWLE_CHIRP_BIT == 8
PWLE_BRAKE_BIT == 4
PWLE_AMP_REG_BIT == 2

\* mIsUnderExternalControl is cleared by the constructor; setExternalControl
\* (the audio-coupled control path) is not part of this model.
mIsUnderExternalControl == FALSE

Base == "base"
Flip == "flip"
Gpio == "gpio"
Actuators == {Base, Flip}

NoHolder == <<"none", 0>>
CallerId(c) == <<"caller", c>>
TaskId(t) == <<"task", t>>

VARIABLES
    mIsDual,            \* both HwApi/HwCal pairs present
    mGPIOStatus,        \* mHwGPIO->getGPIO() at construction
    mF0Offset,          \* calibrated F0 offset of the base
    mF0OffsetDual,      \* calibrated F0 offset of the flip
    mClickEffectVol,    \* calibrated volume levels of the click effects
    mActiveId,          \* effect being played, -1 for none
    mActiveId_mutex,    \* holder of the mutex, NoHolder when free
    mLongEffectScale,   \* amplitude scale in percent (1.0 = 100)
    mAsyncHandle,       \* shared state the future refers to
    task,               \* shared state -> [pc, cb, cbCount, events]
    call,               \* caller -> frame of the call in progress
    hwPlay,             \* actuator -> "idle" | "armed" | "haptic"
    owt,                \* actuator -> set of dynamic slots allocated
    gpioOut,            \* level of the GPIO output
    composite,          \* argument of the compose / composePwle call in progress
    enc,                \* locals of that call, and its position
    ch                  \* the DspMemChunk the call builds

vars == <<mIsDual, mGPIOStatus, mF0Offset, mF0OffsetDual, mClickEffectVol, mActiveId,
          mActiveId_mutex, mLongEffectScale, mAsyncHandle, task, call,
          hwPlay, owt, gpioOut, composite, enc, ch>>

config == <<mIsDual, mGPIOStatus, mF0Offset, mF0OffsetDual, mClickEffectVol>>
hw == <<hwPlay, owt, gpioOut>>
encoder == <<composite, enc, ch>>
vib == <<mIsDual, mGPIOStatus, mF0Offset, mF0OffsetDual, mClickEffectVol, mActiveId,
         mActiveId_mutex, mLongEffectScale, mAsyncHandle, task, call,
         hwPlay, owt, gpioOut>>

Callers == {1, 2}
TaskIds == 0 .. MaxTasks

\* actuators the controller drives
InUse == IF mIsDual THEN {Base, Flip} ELSE {Base}

\* -------------------------------------------------------------- helpers
\* roundf / std::round on a non-negative quotient num / den
RoundDiv(num, den) == (2 * num + den) \div (2 * den)

\* a uint16_t assigned from an int
U16(x) == x % 65536

\* amplitudeToScale without the limit of 100
amplitudeToScaleUnclamped(amplitude, maximum) ==
    IF maximum = 0 THEN 100 ELSE RoundDiv(amplitude * 100, maximum)

amplitudeToScale(amplitude, maximum) ==
    IF maximum = 0 \/ amplitude * 100 > 100 * maximum
    THEN 100
    ELSE RoundDiv(amplitude * 100, maximum)

\* A hardware command: name, target, argument.
Cmd(n, a, v) == [n |-> n, a |-> a, v |-> v]

\* name(v) on the base, then on the flip in dual mode
PerActuator(n, v) ==
    IF mIsDual THEN <<Cmd(n, Base, v), Cmd(n, Flip, v)>> ELSE <<Cmd(n, Base, v)>>

\* The record of a section that stops at its first failing command
\* (fail = 0: none fails): the commands issued, each with its outcome.
UpTo(steps, fail) ==
    [i \in 1 .. (IF fail = 0 THEN Len(steps) ELSE fail) |->
        [n |-> steps[i].n, a |-> steps[i].a, v |-> steps[i].v, ok |-> i # fail]]

\* The record of a section that issues every command whatever the others
\* return; okSet are the targets whose command succeeds.
Each(steps, okSet) ==
    [i \in 1 .. Len(steps) |->
        [n |-> steps[i].n, a |-> steps[i].a, v |-> steps[i].v,
         ok |-> steps[i].a \in okSet]]

Issued(cmds, n, a) == \E i \in 1 .. Len(cmds) : cmds[i].n = n /\ cmds[i].a = a
Done(cmds, n, a) ==
    \E i \in 1 .. Len(cmds) : cmds[i].n = n /\ cmds[i].a = a /\ cmds[i].ok
IssuedAny(cmds, n) == \E i \in 1 .. Len(cmds) : cmds[i].n = n

NoCause == Cmd("", "", 0)

IdleCall ==
    [pc |-> "idle", op |-> "none", timeoutMs |-> 0, effectIndex |-> 0, ch |-> 0,
     cb |-> FALSE, status |-> "", cause |-> NoCause, cmds |-> <<>>, events |-> <<>>,
     newTask |-> 0]

NoTask == [pc |-> "none", cb |-> FALSE, cbCount |-> 0, events |-> <<>>]

\* no compose / composePwle call in progress, no blob under construction
NoChunk == [waveformType |-> -1]
NoLocals ==
    [pc |-> "none", op |-> "none", status |-> "", i_curr |-> 0, size |-> 0,
     nextEffectDelay |-> 0, totalDuration |-> 0, header_count |-> 0,
     segmentIdx |-> 0, prevEndAmplitude |-> 0, prevEndFrequency |-> 0,
     capable |-> TRUE]
NoRequest ==
    /\ composite = <<>>
    /\ enc = NoLocals
    /\ ch = NoChunk

\* the state after construction: mAsyncHandle(std::async([] {})) is task 0
Constructed ==
    /\ mActiveId = -1
    /\ mActiveId_mutex = NoHolder
    /\ mLongEffectScale = 100
    /\ mAsyncHandle = 0
    /\ task = [t \in TaskIds |-> IF t = 0 THEN [NoTask EXCEPT !.pc = "empty"]
                                          ELSE NoTask]
    /\ call = [c \in Callers |-> IdleCall]
    /\ hwPlay = [a \in Actuators |-> "idle"]
    /\ owt = [a \in Actuators |-> {}]
    /\ gpioOut = FALSE

\* devices without a calibrated F0 offset
Init ==
    /\ mIsDual \in BOOLEAN
    /\ mGPIOStatus \in BOOLEAN
    /\ mF0Offset = 0
    /\ mF0OffsetDual = 0
    /\ mClickEffectVol = <<CalClickVolMin, CalClickVolMax>>
    /\ Constructed
    /\ NoRequest

\* devices of every calibration of the F0 offsets
InitCal ==
    /\ mIsDual \in BOOLEAN
    /\ mGPIOStatus \in BOOLEAN
    /\ mF0Offset \in {0, CalF0Offset}
    /\ mF0OffsetDual \in (IF mIsDual THEN {0, CalF0OffsetDual} ELSE {0})
    /\ mClickEffectVol = <<CalClickVolMin, CalClickVolMax>>
    /\ Constructed
    /\ NoRequest

\* ------------------------------------------------------ hardware adapters
OwtSlots == WAVEFORM_MAX_PHYSICAL_INDEX .. (WAVEFORM_MAX_PHYSICAL_INDEX + MaxOwt - 1)

\* the driver hands out the lowest free effect id
NextSlot(used) == CHOOSE i \in OwtSlots \ used : \A j \in OwtSlots \ used : i <= j

\* error code uploadOwtEffect stores in errorStatus when the upload fails
UploadError == "EX_ILLEGAL_STATE"

\* eraseOwtEffect(fd, effectIndex): one slot, or every dynamic slot when
\* effectIndex is WAVEFORM_MAX_INDEX
EraseOwt(slots, effectIndex) ==
    IF effectIndex >= WAVEFORM_MAX_INDEX THEN {} ELSE slots \ {effectIndex}

\* setEffectAmplitude: setFFGain(scale) on the base, then on the flip unless
\* the base failed
setEffectAmplitude(amplitude, maximum, fail) ==
    UpTo(PerActuator("gain", amplitudeToScale(amplitude, maximum)), fail)

GainFails == 0 .. (IF mIsDual THEN 2 ELSE 1)

\* the uint8_t amplitude setGlobalAmplitude hands to setEffectAmplitude
GlobalAmplitude(set, scale) ==
    IF set THEN RoundDiv(scale * CalLongVolMax, 100) ELSE VOLTAGE_SCALE_MAX

setGlobalAmplitude(set, scale, fail) ==
    setEffectAmplitude(GlobalAmplitude(set, scale), VOLTAGE_SCALE_MAX, fail)

\* setF0Offset calls of on(timeoutMs) and off(): the flip only inside the
\* branch taken for a nonzero base offset; each is issued whatever the
\* other returns, and what they return is never read
setF0Offset(valBase, valFlip) ==
    Each(IF mF0Offset = 0 THEN <<>>
         ELSE IF mIsDual /\ mF0OffsetDual # 0
         THEN <<Cmd("f0", Base, valBase), Cmd("f0", Flip, valFlip)>>
         ELSE <<Cmd("f0", Base, valBase)>>, Actuators)

\* ------------------------------------------------------------ call frame
\* the call has its result; Return hands it to the caller
Begin(op) == [IdleCall EXCEPT !.op = op]

Result(c, op, status, cause, cmds) ==
    [call EXCEPT ![c] = [Begin(op) EXCEPT !.pc = "ret", !.status = status,
                                          !.cause = cause, !.cmds = cmds]]

Return(c) ==
    /\ call[c].pc = "ret"
    /\ call' = [call EXCEPT ![c] = IdleCall]
    /\ UNCHANGED <<config, encoder, mActiveId, mActiveId_mutex, mLongEffectScale,
                   mAsyncHandle, task, hw>>

\* --------------------- on(timeoutMs, effectIndex, ch, callback): the wait
\* mAsyncHandle.wait_for(ASYNC_COMPLETION_TIMEOUT). The wait returns ready
\* exactly if the task of the shared state finishes before it elapses; a
\* task that finishes during the wait is a task that has finished when the
\* call is made a little later, so the wait is decided in the step that
\* enters on(), together with the commands the public entry point issues
\* before it.
\* on() as it would be without the wait on mAsyncHandle: a faulty variant
\* that the properties of the pending-check tell apart from Enter
EnterWithoutWait(c, frame) ==
    IF frame.effectIndex >= FF_MAX_EFFECTS
    THEN call' = Result(c, frame.op, "EX_ILLEGAL_ARGUMENT",
                        Cmd("index", "", frame.effectIndex), frame.cmds)
    ELSE call' = [call EXCEPT ![c] =
               [frame EXCEPT !.pc = "on_prepare", !.events = <<"accepted">>]]

Enter(c, frame) ==
    IF frame.effectIndex >= FF_MAX_EFFECTS
    THEN call' = Result(c, frame.op, "EX_ILLEGAL_ARGUMENT",
                        Cmd("index", "", frame.effectIndex), frame.cmds)
    ELSE IF task[mAsyncHandle].pc # "done"
    THEN call' = Result(c, frame.op, "EX_ILLEGAL_STATE", Cmd("pending", "", 0),
                        frame.cmds)
    ELSE call' = [call EXCEPT ![c] =
               [frame EXCEPT !.pc = "on_prepare", !.events = <<"accepted">>]]

\* ------------------------------------------------- on(timeoutMs, callback)
TimeoutInputs == {ShortTimeoutMs, LongTimeoutMs, MAX_TIME_MS + 1}

\* the cold-start latency is added to a timeout that has room for it below
\* MAX_TIME_MS; a faulty variant adds it to every timeout
WithColdStartAlways(timeoutMs) == timeoutMs + MAX_COLD_START_LATENCY_MS
WithColdStart(timeoutMs) ==
    IF MAX_COLD_START_LATENCY_MS <= MAX_TIME_MS - timeoutMs
    THEN timeoutMs + MAX_COLD_START_LATENCY_MS
    ELSE timeoutMs

\* timeoutMs is an int32_t and MAX_TIME_MS a uint32_t: the comparison
\* converts timeoutMs to uint32_t, which turns a negative value into one of
\* 2^31 or more
OnTimed(c, timeoutMs, cb) ==
    /\ call[c].pc = "idle"
    /\ IF timeoutMs < 0 \/ timeoutMs > MAX_TIME_MS
       THEN call' = Result(c, "on", "EX_ILLEGAL_ARGUMENT",
                           Cmd("timeout", "", timeoutMs), <<>>)
       ELSE \E gfail \in GainFails :
            Enter(c, [Begin("on") EXCEPT
                      !.timeoutMs = WithColdStart(timeoutMs),
                      !.effectIndex =
                          IF timeoutMs < WAVEFORM_LONG_VIBRATION_THRESHOLD_MS
                          THEN WAVEFORM_SHORT_VIBRATION_EFFECT_INDEX
                          ELSE WAVEFORM_LONG_VIBRATION_EFFECT_INDEX,
                      !.cb = cb,
                      !.cmds = setGlobalAmplitude(TRUE, mLongEffectScale, gfail)
                               \o setF0Offset(mF0Offset, mF0OffsetDual)])
    /\ UNCHANGED <<config, encoder, mActiveId, mActiveId_mutex, mLongEffectScale,
                   mAsyncHandle, task, hw>>

\* ------------------------- performEffect(effectIndex, volLevel, ch, callback)
\* a click, a composition and a PWLE envelope; ch = 0 stands for nullptr
EffectInputs ==
    {[effectIndex |-> WAVEFORM_CLICK_INDEX, volLevel |-> ClickVolLevel, ch |-> 0],
     [effectIndex |-> WAVEFORM_MAX_INDEX, volLevel |-> VOLTAGE_SCALE_MAX,
      ch |-> WAVEFORM_COMPOSE],
     [effectIndex |-> WAVEFORM_MAX_INDEX, volLevel |-> VOLTAGE_SCALE_MAX,
      ch |-> WAVEFORM_PWLE]}

performEffect(c, e, cb) ==
    /\ call[c].pc = "idle"
    /\ \E gfail \in GainFails :
        Enter(c, [Begin("perform") EXCEPT
                  !.timeoutMs = MAX_TIME_MS,
                  !.effectIndex = e.effectIndex, !.ch = e.ch, !.cb = cb,
                  !.cmds = setEffectAmplitude(e.volLevel, VOLTAGE_SCALE_MAX, gfail)])
    /\ UNCHANGED <<config, encoder, mActiveId, mActiveId_mutex, mLongEffectScale,
                   mAsyncHandle, task, hw>>

\* ---------------- on(timeoutMs, effectIndex, ch, callback) past the wait
\* the unlocked section: upload of a dynamic blob, or the edit of the
\* long/short slot with its duration, static_cast<uint16_t>(timeoutMs)
PrepareSteps(c) ==
    IF call[c].ch # 0 THEN PerActuator("upload", call[c].ch)
    ELSE IF call[c].effectIndex \in {WAVEFORM_SHORT_VIBRATION_EFFECT_INDEX,
                                     WAVEFORM_LONG_VIBRATION_EFFECT_INDEX}
    THEN PerActuator("edit", U16(call[c].timeoutMs))
    ELSE <<>>

\* owt after the uploads that succeeded
OwtAfterUpload(cmds) ==
    [a \in Actuators |->
        IF Done(cmds, "upload", a) THEN owt[a] \cup {NextSlot(owt[a])} ELSE owt[a]]

\* effectIndex as the uploads leave it: ch->type(), overwritten by each
\* successful uploadOwtEffect with the id the driver assigned
IndexAfterUpload(c, cmds) ==
    IF call[c].ch = 0 THEN call[c].effectIndex
    ELSE IF Done(cmds, "upload", Flip) THEN NextSlot(owt[Flip])
    ELSE IF Done(cmds, "upload", Base) THEN NextSlot(owt[Base])
    ELSE call[c].ch

\* the unlocked section as it would be if only a failure on the base made
\* on() return: a faulty variant that the properties of the uploads tell
\* apart from AfterPrepare
AfterPrepareBaseOnly(c, steps, cmds, fail) ==
    IF fail = 1
    THEN Result(c, call[c].op,
                IF call[c].ch # 0 THEN UploadError ELSE "EX_ILLEGAL_STATE",
                steps[fail], cmds)
    ELSE [call EXCEPT ![c].pc = "on_play",
                      ![c].cmds = cmds,
                      ![c].effectIndex = IndexAfterUpload(c, cmds)]

\* the call after the unlocked section: the return at the first command
\* that failed (steps[fail]), or on to the section under the mutex
AfterPrepare(c, steps, cmds, fail) ==
    IF fail # 0
    THEN Result(c, call[c].op,
                IF call[c].ch # 0 THEN UploadError ELSE "EX_ILLEGAL_STATE",
                steps[fail], cmds)
    ELSE [call EXCEPT ![c].pc = "on_play",
                      ![c].cmds = cmds,
                      ![c].effectIndex = IndexAfterUpload(c, cmds)]

\* the free-space checks as they would be if the flip were asked only after
\* the upload to the base: a faulty variant
FreeSpaceReadsLate(a) ==
    IF a = Base THEN UpTo(<<Cmd("get_free", Base, 0)>>, 1)
    ELSE UpTo(<<Cmd("get_free", Base, 0), Cmd("upload", Base, 0),
                Cmd("get_free", Flip, 0)>>, 3)

\* the commands on() has issued when the blob does not fit into the free
\* space of actuator a: getOwtFreeSpace on the base, then on the flip
FreeSpaceReads(a) ==
    UpTo(PerActuator("get_free", 0), IF a = Base THEN 1 ELSE 2)

OnPrepare(c) ==
    /\ call[c].pc = "on_prepare"
    /\ \/ \* getOwtFreeSpace reports less than ch->size() on an actuator in use
          /\ call[c].ch # 0
          /\ \E a \in InUse :
                call' = Result(c, call[c].op, "EX_ILLEGAL_ARGUMENT",
                               Cmd("get_free", a, 0), FreeSpaceReads(a))
          /\ UNCHANGED owt
       \/ \E fail \in 0 .. Len(PrepareSteps(c)) :
          LET steps == PrepareSteps(c)
              reads == IF call[c].ch # 0
                       THEN UpTo(PerActuator("get_free", 0), 0) ELSE <<>>
              ran == UpTo(steps, fail)
          IN
          \* an upload to an actuator without a free slot cannot succeed
          /\ \A a \in Actuators : Done(ran, "upload", a) => OwtSlots \ owt[a] # {}
          /\ owt' = OwtAfterUpload(ran)
          /\ call' = AfterPrepare(c, steps, reads \o ran, fail)
    /\ UNCHANGED <<config, encoder, mActiveId, mActiveId_mutex, mLongEffectScale,
                   mAsyncHandle, task, hwPlay, gpioOut>>

\* trigger.button = GPIO_TRIGGER_CONFIG | effectIndex in the effect structure
\* of the base and of the flip, as the unlocked section sets it for a blob
\* and for the long/short slot before the upload or the edit
ButtonArmed == mGPIOStatus /\ mIsDual

\* commands of the section under mActiveId_mutex
PlaySteps(c) ==
    IF ~mGPIOStatus THEN PerActuator("play", call[c].effectIndex)
    ELSE (IF call[c].effectIndex \in {WAVEFORM_CLICK_INDEX, WAVEFORM_LIGHT_TICK_INDEX}
          THEN PerActuator("edit_trigger", call[c].effectIndex) ELSE <<>>)
         \o <<Cmd("gpio", Gpio, 1)>>

\* mActiveId as the section leaves it: only the two play failures reset it
ActiveIdAfterPlay(c, steps, fail) ==
    IF fail # 0 /\ steps[fail].n = "play" THEN -1 ELSE call[c].effectIndex

\* a play command arms the actuator; a rising edge of the GPIO output arms
\* every actuator in use
HwPlayAfter(cmds) ==
    [a \in Actuators |->
        IF \/ Done(cmds, "play", a)
           \/ (Done(cmds, "gpio", Gpio) /\ ~gpioOut /\ a \in InUse)
        THEN "armed" ELSE hwPlay[a]]

OnPlay(c) ==
    /\ call[c].pc = "on_play"
    /\ mActiveId_mutex = NoHolder
    /\ \E fail \in 0 .. Len(PlaySteps(c)) :
       LET steps == PlaySteps(c)
           ran == UpTo(steps, fail)
       IN
       /\ mActiveId' = ActiveIdAfterPlay(c, steps, fail)
       /\ hwPlay' = HwPlayAfter(ran)
       /\ gpioOut' = (gpioOut \/ Done(ran, "gpio", Gpio))
       /\ call' = [call EXCEPT
                     ![c].pc = "on_unlock",
                     ![c].timeoutMs = 0,
                     ![c].effectIndex = 0,
                     ![c].ch = 0,
                     ![c].cmds = ran,
                     ![c].status = IF fail = 0 THEN "" ELSE "EX_ILLEGAL_STATE",
                     ![c].cause = IF fail = 0 THEN NoCause ELSE steps[fail],
                     ![c].events = IF fail = 0 THEN Append(@, "trigger") ELSE @]
    /\ mActiveId_mutex' = CallerId(c)
    /\ UNCHANGED <<config, encoder, mLongEffectScale, mAsyncHandle, task, owt>>

\* the scoped_lock goes out of scope: on a failure with the return
OnUnlock(c) ==
    /\ call[c].pc = "on_unlock"
    /\ mActiveId_mutex' = NoHolder
    /\ call' = [call EXCEPT ![c] = IF call[c].status = ""
                                   THEN [@ EXCEPT !.pc = "on_spawn", !.cmds = <<>>]
                                   ELSE IdleCall]
    /\ UNCHANGED <<config, encoder, mActiveId, mLongEffectScale, mAsyncHandle, task, hw>>

\* std::async(&Vibrator::waitForComplete, this, callback): a new shared
\* state whose task starts to run
FreeTask == CHOOSE t \in TaskIds : task[t].pc = "none" /\ \A u \in TaskIds :
                                      task[u].pc = "none" => t <= u

OnSpawn(c) ==
    /\ call[c].pc = "on_spawn"
    /\ \E t \in TaskIds : task[t].pc = "none"
    /\ task' = [task EXCEPT ![FreeTask] =
                  [NoTask EXCEPT !.pc = "poll_haptic", !.cb = call[c].cb,
                                 !.events = call[c].events]]
    /\ call' = [call EXCEPT ![c] = [IdleCall EXCEPT !.pc = "on_assign",
                                                     !.op = call[c].op,
                                                     !.newTask = FreeTask]]
    /\ UNCHANGED <<config, encoder, mActiveId, mActiveId_mutex, mLongEffectScale,
                   mAsyncHandle, hw>>

\* mAsyncHandle = <the new future>: releasing the previous shared state
\* blocks until its task has finished, and destroys it
OnAssign(c) ==
    /\ call[c].pc = "on_assign"
    /\ task[mAsyncHandle].pc = "done"
    /\ mAsyncHandle' = call[c].newTask
    /\ task' = [task EXCEPT ![mAsyncHandle] = NoTask]
    /\ call' = Result(c, call[c].op, "OK", NoCause, <<>>)
    /\ UNCHANGED <<config, encoder, mActiveId, mActiveId_mutex, mLongEffectScale, hw>>

\* ------------------------------------------------------------------ off()
\* the stop section as it would be with the GPIO reset placed after the
\* branch on mActiveId: a faulty variant
OffStopsAlways(okStop, okGpio) ==
    (IF mActiveId >= 0 THEN Each(PerActuator("stop", mActiveId), okStop) ELSE <<>>)
    \o Each(<<Cmd("gpio", Gpio, 0)>>, IF okGpio THEN {Gpio} ELSE {})

\* the stop section as it would be if a failed stop of the base skipped the
\* flip: a faulty variant
OffStopsShortCircuit(okStop, okGpio) ==
    IF mActiveId >= 0
    THEN UpTo(PerActuator("stop", mActiveId),
              IF Base \notin okStop THEN 1
              ELSE IF mIsDual /\ Flip \notin okStop THEN 2 ELSE 0)
         \o Each(<<Cmd("gpio", Gpio, 0)>>, IF okGpio THEN {Gpio} ELSE {})
    ELSE <<>>

\* the commands of the branch taken when an effect is active: the stop on
\* each actuator in use, whatever the other returns, then the GPIO reset
OffStops(okStop, okGpio) ==
    IF mActiveId >= 0
    THEN Each(PerActuator("stop", mActiveId), okStop)
         \o Each(<<Cmd("gpio", Gpio, 0)>>, IF okGpio THEN {Gpio} ELSE {})
    ELSE <<>>

\* the end of off() as it would be if it cleared mActiveId whatever ret is:
\* a faulty variant
ActiveIdAfterOffCleared(ret) == -1

\* the end of off(): mActiveId is cleared only if ret
ActiveIdAfterOff(ret) == IF ret THEN -1 ELSE mActiveId

\* the whole body runs under mActiveId_mutex; OffUnlock is the return
off(c) ==
    /\ call[c].pc = "idle"
    /\ mActiveId_mutex = NoHolder
    /\ \E okStop \in SUBSET InUse, okGpio \in BOOLEAN, gfail \in GainFails :
       LET active == mActiveId >= 0
           ret == ~active \/ okStop = InUse
           stops == OffStops(okStop, okGpio)
       IN
       /\ hwPlay' = [a \in Actuators |->
                        IF Done(stops, "stop", a) THEN "idle" ELSE hwPlay[a]]
       /\ gpioOut' = IF Done(stops, "gpio", Gpio) THEN FALSE ELSE gpioOut
       /\ IF active /\ ~okGpio
          THEN /\ UNCHANGED <<mLongEffectScale, mActiveId>>
               /\ call' = [call EXCEPT ![c] =
                      [Begin("off") EXCEPT
                         !.pc = "off_unlock", !.status = "EX_ILLEGAL_STATE",
                         !.cause = Cmd("gpio", Gpio, 0), !.cmds = stops]]
          ELSE /\ mLongEffectScale' = 100
               /\ mActiveId' = ActiveIdAfterOff(ret)
               /\ call' = [call EXCEPT ![c] =
                      [Begin("off") EXCEPT
                         !.pc = "off_unlock",
                         !.status = IF ret THEN "OK" ELSE "EX_ILLEGAL_STATE",
                         !.cause = IF ret THEN NoCause
                                   ELSE Cmd("stop", "", mActiveId),
                         !.cmds = stops
                                  \o setGlobalAmplitude(FALSE, mLongEffectScale, gfail)
                                  \o setF0Offset(0, 0)]]
    /\ mActiveId_mutex' = CallerId(c)
    /\ UNCHANGED <<config, encoder, mAsyncHandle, task, owt>>

OffUnlock(c) ==
    /\ call[c].pc = "off_unlock"
    /\ mActiveId_mutex' = NoHolder
    /\ call' = [call EXCEPT ![c] = IdleCall]
    /\ UNCHANGED <<config, encoder, mActiveId, mLongEffectScale, mAsyncHandle, task, hw>>

\* ------------------------------------------------- setAmplitude(amplitude)
AmplitudeInputs == {0, HalfAmplitude, 100}

setAmplitude(c, amplitude) ==
    /\ call[c].pc = "idle"
    /\ IF amplitude <= 0 \/ amplitude > 100
       THEN /\ call' = Result(c, "setAmplitude", "EX_ILLEGAL_ARGUMENT",
                               Cmd("amplitude", "", amplitude), <<>>)
            /\ UNCHANGED mLongEffectScale
       ELSE /\ mLongEffectScale' = amplitude
            /\ IF mIsUnderExternalControl
               THEN call' = Result(c, "setAmplitude", "EX_UNSUPPORTED_OPERATION",
                                   NoCause, <<>>)
               ELSE \E gfail \in GainFails :
                    call' = Result(c, "setAmplitude",
                                   IF gfail = 0 THEN "OK" ELSE "EX_ILLEGAL_STATE",
                                   IF gfail = 0 THEN NoCause
                                   ELSE PerActuator("gain", 0)[gfail],
                                   setGlobalAmplitude(TRUE, amplitude, gfail))
    /\ UNCHANGED <<config, encoder, mActiveId, mActiveId_mutex, mAsyncHandle, task, hw>>

\* ------------------------------------------------------ waitForComplete
\* the empty task the constructor hands to mAsyncHandle
EmptyTask ==
    /\ task[0].pc = "empty"
    /\ task' = [task EXCEPT ![0].pc = "done"]
    /\ UNCHANGED <<config, encoder, mActiveId, mActiveId_mutex, mLongEffectScale,
                   mAsyncHandle, call, hw>>

\* pollVibeState(VIBE_STATE_HAPTIC, POLLING_TIMEOUT): the task goes on
\* whether the base reported the haptic state or the poll timed out
PollHaptic(t) ==
    /\ task[t].pc = "poll_haptic"
    /\ task' = [task EXCEPT ![t].pc = "poll_stop"]
    /\ UNCHANGED <<config, encoder, mActiveId, mActiveId_mutex, mLongEffectScale,
                   mAsyncHandle, call, hw>>

\* the poll of the base as it would be if it waited for the haptic state a
\* second time instead of the stopped state: a faulty variant
PollStoppedHaptic(t) ==
    /\ task[t].pc = "poll_stop"
    /\ hwPlay[Base] = "haptic"
    /\ task' = [task EXCEPT ![t].pc = IF mIsDual THEN "poll_stop_flip" ELSE "cleanup",
                            ![t].events = IF mIsDual THEN @ ELSE Append(@, "stop")]
    /\ UNCHANGED <<config, encoder, mActiveId, mActiveId_mutex, mLongEffectScale,
                   mAsyncHandle, call, hw>>

\* the poll of the base as it would be if the task went on to the cleanup
\* without the wait for the flip: a faulty variant
PollStoppedOnly(t) ==
    /\ task[t].pc = "poll_stop"
    /\ hwPlay[Base] # "haptic"
    /\ task' = [task EXCEPT ![t].pc = "cleanup", ![t].events = Append(@, "stop")]
    /\ UNCHANGED <<config, encoder, mActiveId, mActiveId_mutex, mLongEffectScale,
                   mAsyncHandle, call, hw>>

\* pollVibeState(VIBE_STATE_STOPPED) on the base
PollStopped(t) ==
    /\ task[t].pc = "poll_stop"
    /\ hwPlay[Base] # "haptic"
    /\ task' = [task EXCEPT ![t].pc = IF mIsDual THEN "poll_stop_flip" ELSE "cleanup",
                            ![t].events = IF mIsDual THEN @ ELSE Append(@, "stop")]
    /\ UNCHANGED <<config, encoder, mActiveId, mActiveId_mutex, mLongEffectScale,
                   mAsyncHandle, call, hw>>

\* pollVibeState(VIBE_STATE_STOPPED) on the flip, after the base
PollStoppedFlip(t) ==
    /\ task[t].pc = "poll_stop_flip"
    /\ hwPlay[Flip] # "haptic"
    /\ task' = [task EXCEPT ![t].pc = "cleanup", ![t].events = Append(@, "stop")]
    /\ UNCHANGED <<config, encoder, mActiveId, mActiveId_mutex, mLongEffectScale,
                   mAsyncHandle, call, hw>>

\* owt after the cleanup: the erase of the slot that played, then the sweep
\* of every dynamic slot of an actuator that still counts more than the
\* physical effects
OwtAfterCleanup(okErase, okSweep) ==
    [a \in Actuators |->
        LET erased == IF mActiveId >= WAVEFORM_MAX_PHYSICAL_INDEX /\ a \in InUse
                         /\ a \in okErase
                      THEN EraseOwt(owt[a], mActiveId) ELSE owt[a]
        IN IF a \in InUse /\ a \in okSweep
              /\ WAVEFORM_MAX_PHYSICAL_INDEX + Cardinality(erased)
                     > WAVEFORM_MAX_PHYSICAL_INDEX
           THEN EraseOwt(erased, WAVEFORM_MAX_INDEX) ELSE erased]

\* the section as it would be without the scoped_lock: a faulty variant
CleanupUnlocked(t) ==
    /\ task[t].pc = "cleanup"
    /\ \E okErase \in SUBSET InUse, okGpio \in BOOLEAN, okSweep \in SUBSET InUse :
        /\ owt' = OwtAfterCleanup(okErase, okSweep)
        /\ gpioOut' = IF mGPIOStatus /\ okGpio THEN FALSE ELSE gpioOut
    /\ mActiveId' = -1
    /\ task' = [task EXCEPT ![t].pc = "unlock", ![t].events = Append(@, "cleanup")]
    /\ UNCHANGED <<config, encoder, mActiveId_mutex, mLongEffectScale, mAsyncHandle,
                   call, hwPlay>>

\* the section of waitForComplete under mActiveId_mutex
Cleanup(t) ==
    /\ task[t].pc = "cleanup"
    /\ mActiveId_mutex = NoHolder
    /\ \E okErase \in SUBSET InUse, okGpio \in BOOLEAN, okSweep \in SUBSET InUse :
        /\ owt' = OwtAfterCleanup(okErase, okSweep)
        /\ gpioOut' = IF mGPIOStatus /\ okGpio THEN FALSE ELSE gpioOut
    /\ mActiveId' = -1
    /\ mActiveId_mutex' = TaskId(t)
    /\ task' = [task EXCEPT ![t].pc = "unlock", ![t].events = Append(@, "cleanup")]
    /\ UNCHANGED <<config, encoder, mLongEffectScale, mAsyncHandle, call, hwPlay>>

TaskUnlock(t) ==
    /\ task[t].pc = "unlock"
    /\ mActiveId_mutex' = NoHolder
    /\ task' = [task EXCEPT ![t].pc = "callback"]
    /\ UNCHANGED <<config, encoder, mActiveId, mLongEffectScale, mAsyncHandle, call, hw>>

\* the end of the task as it would be if a failed onComplete() were tried
\* again: a faulty variant
CompleteRetry(t) ==
    /\ task[t].pc = "callback"
    /\ IF task[t].cb
       THEN \E ok \in BOOLEAN :
            task' = [task EXCEPT ![t].pc = IF ok THEN "done" ELSE "callback",
                                 ![t].cbCount = @ + 1,
                                 ![t].events = IF ok THEN Append(@, "callback") ELSE @]
       ELSE task' = [task EXCEPT ![t].pc = "done"]
    /\ UNCHANGED <<config, encoder, mActiveId, mActiveId_mutex, mLongEffectScale,
                   mAsyncHandle, call, hw>>

\* callback->onComplete() if a callback was supplied; its failure is logged
Complete(t) ==
    /\ task[t].pc = "callback"
    /\ IF task[t].cb
       THEN \E ok \in BOOLEAN :
            task' = [task EXCEPT ![t].pc = "done", ![t].cbCount = @ + 1,
                                 ![t].events = Append(@, "callback")]
       ELSE task' = [task EXCEPT ![t].pc = "done"]
    /\ UNCHANGED <<config, encoder, mActiveId, mActiveId_mutex, mLongEffectScale,
                   mAsyncHandle, call, hw>>

\* --------------------------------------------------------------- firmware
\* an armed actuator starts to play
HwStart(a) ==
    /\ hwPlay[a] = "armed"
    /\ hwPlay' = [hwPlay EXCEPT ![a] = "haptic"]
    /\ UNCHANGED <<config, encoder, mActiveId, mActiveId_mutex, mLongEffectScale,
                   mAsyncHandle, task, call, owt, gpioOut>>

\* the effect plays to its end
HwFinish(a) ==
    /\ hwPlay[a] = "haptic"
    /\ hwPlay' = [hwPlay EXCEPT ![a] = "idle"]
    /\ UNCHANGED <<config, encoder, mActiveId, mActiveId_mutex, mLongEffectScale,
                   mAsyncHandle, task, call, owt, gpioOut>>

\* ------------------------------------------------------------ behaviours
\* the steps of on() past the wait, and the return of off()
CallerSteps(c) ==
    \/ OnPrepare(c)
    \/ OnPlay(c)
    \/ OnUnlock(c)
    \/ OnSpawn(c)
    \/ OnAssign(c)
    \/ OffUnlock(c)

CallerNext(c) ==
    \/ \E timeoutMs \in TimeoutInputs, cb \in BOOLEAN : OnTimed(c, timeoutMs, cb)
    \/ \E e \in EffectInputs, cb \in BOOLEAN : performEffect(c, e, cb)
    \/ off(c)
    \/ \E amplitude \in AmplitudeInputs : setAmplitude(c, amplitude)
    \/ CallerSteps(c)

waitForComplete(t) ==
    \/ PollHaptic(t)
    \/ PollStopped(t)
    \/ PollStoppedFlip(t)
    \/ Cleanup(t)
    \/ TaskUnlock(t)
    \/ Complete(t)

\* A call that has its result returns before anything else happens: Return
\* only clears the frame, so every behaviour of the program has this form.
Returning == \E c \in Callers : call[c].pc = "ret"

\* the completion tasks and the firmware, running beside the callers
Background ==
    \/ ~Returning /\ EmptyTask
    \/ ~Returning /\ \E t \in TaskIds : PollHaptic(t)
    \/ ~Returning /\ \E t \in TaskIds : PollStopped(t)
    \/ ~Returning /\ \E t \in TaskIds : PollStoppedFlip(t)
    \/ ~Returning /\ \E t \in TaskIds : Cleanup(t)
    \/ ~Returning /\ \E t \in TaskIds : TaskUnlock(t)
    \/ ~Returning /\ \E t \in TaskIds : Complete(t)
    \/ ~Returning /\ \E a \in Actuators : HwStart(a)
    \/ ~Returning /\ \E a \in Actuators : HwFinish(a)

\* one caller thread at a time, concurrent with the completion task
Next ==
    \/ Return(1)
    \/ CallerNext(1)
    \/ Background

Spec == Init /\ [][Next]_vars

\* Timed vibrations on devices of every F0 calibration: on(timeoutMs),
\* setAmplitude and off from one caller thread.
NextCal ==
    \/ Return(1)
    \/ \E timeoutMs \in TimeoutInputs, cb \in BOOLEAN : OnTimed(1, timeoutMs, cb)
    \/ off(1)
    \/ \E amplitude \in AmplitudeInputs : setAmplitude(1, amplitude)
    \/ CallerSteps(1)
    \/ Background

SpecCal == InitCal /\ [][NextCal]_vars

\* Timed vibrations of every length an int32_t can ask for: the bounds of
\* the accepted range and of the cold-start latency, the threshold between
\* the two slots, and the extremes
EdgeTimeouts ==
    {-2147483647 - 1, -1, 0,
     WAVEFORM_LONG_VIBRATION_THRESHOLD_MS - 1, WAVEFORM_LONG_VIBRATION_THRESHOLD_MS,
     MAX_TIME_MS - MAX_COLD_START_LATENCY_MS,
     MAX_TIME_MS - MAX_COLD_START_LATENCY_MS + 1,
     MAX_TIME_MS, MAX_TIME_MS + 1, 2147483647}

NextTimed ==
    \/ Return(1)
    \/ \E timeoutMs \in EdgeTimeouts, cb \in BOOLEAN : OnTimed(1, timeoutMs, cb)
    \/ off(1)
    \/ CallerSteps(1)
    \/ Background

SpecTimed == Init /\ [][NextTimed]_vars

ClickInputs == {e \in EffectInputs : e.ch = 0}

\* Two caller threads that start clicks and stop them.
NextMT ==
    \/ \E c \in Callers : Return(c)
    \/ ~Returning /\ \E c \in Callers, e \in ClickInputs : performEffect(c, e, FALSE)
    \/ ~Returning /\ \E c \in Callers : off(c)
    \/ ~Returning /\ \E c \in Callers : OnPrepare(c)
    \/ ~Returning /\ \E c \in Callers : OnPlay(c)
    \/ ~Returning /\ \E c \in Callers : OnUnlock(c)
    \/ ~Returning /\ \E c \in Callers : OnSpawn(c)
    \/ ~Returning /\ \E c \in Callers : OnAssign(c)
    \/ ~Returning /\ \E c \in Callers : OffUnlock(c)
    \/ Background

SpecMT == Init /\ [][NextMT]_vars

\* Long vibrations started and stopped by one caller thread, with the
\* scheduling the program runs under: a thread that can take a step is not
\* held back for ever (the return of a call, the release of the mutex, the
\* polls and the callback of the task), the task gets mActiveId_mutex if the
\* mutex is free again and again, and an effect that plays comes to its end.
NextLive ==
    \/ Return(1)
    \/ \E cb \in BOOLEAN : OnTimed(1, LongTimeoutMs, cb)
    \/ off(1)
    \/ CallerSteps(1)
    \/ EmptyTask
    \/ \E t \in TaskIds : waitForComplete(t)
    \/ \E a \in Actuators : HwStart(a)
    \/ \E a \in Actuators : HwFinish(a)

Fairness ==
    /\ WF_vars(OnUnlock(1))
    /\ WF_vars(OffUnlock(1))
    /\ WF_vars(EmptyTask)
    /\ \A t \in TaskIds :
        /\ WF_vars(PollHaptic(t))
        /\ WF_vars(PollStopped(t))
        /\ WF_vars(PollStoppedFlip(t))
        /\ SF_vars(Cleanup(t))
        /\ WF_vars(TaskUnlock(t))
        /\ WF_vars(Complete(t))
    /\ \A a \in Actuators : WF_vars(HwFinish(a))

SpecLive == Init /\ [][NextLive]_vars /\ Fairness

\* ================================================ waitForComplete, unfolded
\* The section of waitForComplete under mActiveId_mutex, one statement
\* group at a time, for sessions of dynamic effects: the caller plays
\* compositions and PWLE envelopes and stops them. The task notes the erase
\* commands it issues in its events.
OwtAfterErase(okErase) ==
    [a \in Actuators |->
        IF a \in InUse /\ a \in okErase THEN EraseOwt(owt[a], mActiveId) ELSE owt[a]]

EraseEvents == IF mIsDual THEN <<"erase_base", "erase_flip">> ELSE <<"erase_base">>

\* the lock, and the erase of the slot mActiveId names if it names one
CleanupErase(t) ==
    /\ task[t].pc = "cleanup"
    /\ mActiveId_mutex = NoHolder
    /\ mActiveId_mutex' = TaskId(t)
    /\ IF mActiveId >= WAVEFORM_MAX_PHYSICAL_INDEX
       THEN /\ \E okErase \in SUBSET InUse : owt' = OwtAfterErase(okErase)
            /\ task' = [task EXCEPT ![t].pc = "cleanup_clear",
                                    ![t].events = @ \o EraseEvents]
       ELSE /\ UNCHANGED owt
            /\ task' = [task EXCEPT ![t].pc = "cleanup_clear"]
    /\ UNCHANGED <<config, encoder, mActiveId, mLongEffectScale, mAsyncHandle, call,
                   hwPlay, gpioOut>>

\* the statement as it would be if it left mActiveId alone: a faulty variant
CleanupClearSkipped(t) ==
    /\ task[t].pc = "cleanup_clear"
    /\ task' = [task EXCEPT ![t].pc = "cleanup_gpio"]
    /\ UNCHANGED <<config, encoder, mActiveId, mActiveId_mutex, mLongEffectScale,
                   mAsyncHandle, call, hw>>

\* mActiveId = -1
CleanupClear(t) ==
    /\ task[t].pc = "cleanup_clear"
    /\ mActiveId' = -1
    /\ task' = [task EXCEPT ![t].pc = "cleanup_gpio"]
    /\ UNCHANGED <<config, encoder, mActiveId_mutex, mLongEffectScale, mAsyncHandle,
                   call, hw>>

\* mGPIOStatus && !mHwGPIO->setGPIOOutput(false)
CleanupGpio(t) ==
    /\ task[t].pc = "cleanup_gpio"
    /\ \E okGpio \in BOOLEAN :
        gpioOut' = IF mGPIOStatus /\ okGpio THEN FALSE ELSE gpioOut
    /\ task' = [task EXCEPT ![t].pc = "cleanup_sweep"]
    /\ UNCHANGED <<config, encoder, mActiveId, mActiveId_mutex, mLongEffectScale,
                   mAsyncHandle, call, hwPlay, owt>>

\* getEffectCount on each actuator in use, and the erase of every dynamic
\* slot of one that counts more than the physical effects
\* okSweep are the actuators whose count and erase succeed; a faulty variant
\* sweeps the base alone
CleanupSweepBase(t, okSweep) ==
    /\ task[t].pc = "cleanup_sweep"
    /\ owt' = [a \in Actuators |->
                  IF a = Base /\ a \in okSweep
                     /\ WAVEFORM_MAX_PHYSICAL_INDEX + Cardinality(owt[a])
                            > WAVEFORM_MAX_PHYSICAL_INDEX
                  THEN EraseOwt(owt[a], WAVEFORM_MAX_INDEX) ELSE owt[a]]
    /\ task' = [task EXCEPT ![t].pc = "unlock", ![t].events = Append(@, "cleanup")]
    /\ UNCHANGED <<config, encoder, mActiveId, mActiveId_mutex, mLongEffectScale,
                   mAsyncHandle, call, hwPlay, gpioOut>>

CleanupSweepWith(t, okSweep) ==
    /\ task[t].pc = "cleanup_sweep"
    /\ owt' = [a \in Actuators |->
                  IF a \in InUse /\ a \in okSweep
                     /\ WAVEFORM_MAX_PHYSICAL_INDEX + Cardinality(owt[a])
                            > WAVEFORM_MAX_PHYSICAL_INDEX
                  THEN EraseOwt(owt[a], WAVEFORM_MAX_INDEX) ELSE owt[a]]
    /\ task' = [task EXCEPT ![t].pc = "unlock", ![t].events = Append(@, "cleanup")]
    /\ UNCHANGED <<config, encoder, mActiveId, mActiveId_mutex, mLongEffectScale,
                   mAsyncHandle, call, hwPlay, gpioOut>>

CleanupSweep(t) == \E okSweep \in SUBSET InUse : CleanupSweepWith(t, okSweep)

BlobInputs == {e \in EffectInputs : e.ch # 0}

NextOwt ==
    \/ Return(1)
    \/ \E e \in BlobInputs, cb \in BOOLEAN : performEffect(1, e, cb)
    \/ off(1)
    \/ CallerSteps(1)
    \/ ~Returning /\ EmptyTask
    \/ ~Returning /\ \E t \in TaskIds : PollHaptic(t)
    \/ ~Returning /\ \E t \in TaskIds : PollStopped(t)
    \/ ~Returning /\ \E t \in TaskIds : PollStoppedFlip(t)
    \/ ~Returning /\ \E t \in TaskIds : CleanupErase(t)
    \/ ~Returning /\ \E t \in TaskIds : CleanupClear(t)
    \/ ~Returning /\ \E t \in TaskIds : CleanupGpio(t)
    \/ ~Returning /\ \E t \in TaskIds : CleanupSweep(t)
    \/ ~Returning /\ \E t \in TaskIds : TaskUnlock(t)
    \/ ~Returning /\ \E t \in TaskIds : Complete(t)
    \/ ~Returning /\ \E a \in Actuators : HwStart(a)
    \/ ~Returning /\ \E a \in Actuators : HwFinish(a)

SpecOwt == Init /\ [][NextOwt]_vars

\* ============================================================ DspMemChunk
\* A uint32_t as its 32 bits, least significant first: _cache is shifted
\* left beyond bit 31 during a write, so it keeps its width bit by bit.
Pow2(n) == 2 ^ n
ZeroWord == [i \in 1 .. 32 |-> 0]
ToWord(val) == [i \in 1 .. 32 |-> IF i > 31 THEN 0 ELSE (val \div Pow2(i - 1)) % 2]
Shl(w, n) == [i \in 1 .. 32 |-> IF i > n THEN w[i - n] ELSE 0]
BitOr(v, w) == [i \in 1 .. 32 |-> IF v[i] = 1 \/ w[i] = 1 THEN 1 ELSE 0]
BitAnd(v, w) == [i \in 1 .. 32 |-> IF v[i] = 1 /\ w[i] = 1 THEN 1 ELSE 0]
\* (w & 0xFF000000) >> 24
TopByte(w) ==
    w[25] + 2 * w[26] + 4 * w[27] + 8 * w[28] + 16 * w[29] + 32 * w[30]
    + 64 * w[31] + 128 * w[32]

\* bitwise operations on the bytes of the buffer
ByteOr(a, b) ==
    LET v == ToWord(a)
        w == ToWord(b)
    IN  (IF v[1] = 1 \/ w[1] = 1 THEN 1 ELSE 0)
        + 2 * (IF v[2] = 1 \/ w[2] = 1 THEN 1 ELSE 0)
        + 4 * (IF v[3] = 1 \/ w[3] = 1 THEN 1 ELSE 0)
        + 8 * (IF v[4] = 1 \/ w[4] = 1 THEN 1 ELSE 0)
        + 16 * (IF v[5] = 1 \/ w[5] = 1 THEN 1 ELSE 0)
        + 32 * (IF v[6] = 1 \/ w[6] = 1 THEN 1 ELSE 0)
        + 64 * (IF v[7] = 1 \/ w[7] = 1 THEN 1 ELSE 0)
        + 128 * (IF v[8] = 1 \/ w[8] = 1 THEN 1 ELSE 0)

\* The chunk: head holds the bytes stored so far at offsets 0, 1, ... (the
\* buffer is zero-initialised, so the bytes behind them are 0); current is
\* _current - head, max is _max - head; stray counts the bytes stored at or
\* behind _max; ret is what the last member function returned and wret what
\* the last write() returned.
min(x, y) == IF x < y THEN x ELSE y
isEnd(c) == c.current = c.max

\* *_current++ = b
Store(c, b) ==
    [c EXCEPT !.head = Append(@, b), !.current = @ + 1,
              !.stray = IF c.current >= c.max THEN @ + 1 ELSE @]

RECURSIVE write(_, _, _)
write(c, nbits, val) ==
    LET nwrite == min(24 - c.cachebits, nbits)
        shifted == BitOr(Shl(c.cache, nwrite), ToWord(val \div Pow2(nbits - nwrite)))
        filled == [c EXCEPT !.cache = shifted, !.cachebits = @ + nwrite]
        rest == nbits - nwrite
    IN  IF filled.cachebits = 24 /\ isEnd(filled)
        THEN [filled EXCEPT !.wret = "ENOSPC"]
        ELSE LET masked == BitAnd(shifted, ToWord(Pow2(24) - 1))
                 b0 == Store(filled, TopByte(masked))
                 b1 == Store(b0, TopByte(Shl(masked, 8)))
                 b2 == Store(b1, TopByte(Shl(masked, 16)))
                 b3 == Store(b2, TopByte(Shl(masked, 24)))
                 after == IF filled.cachebits = 24
                          THEN [b3 EXCEPT !.bytes = @ + 4, !.cache = ZeroWord,
                                          !.cachebits = 0]
                          ELSE filled
             IN  IF rest # 0 THEN write(after, rest, val)
                 ELSE [after EXCEPT !.wret = "OK"]

\* roundf(input * scale) of a float given in units of 1 / den
Scaled(input, scale, den) ==
    IF den % scale = 0 THEN RoundDiv(input, den \div scale)
    ELSE RoundDiv(input * scale, den)

\* fToU16 of a non-negative input: the error, or the converted value
fToU16(input, scale, den, lo, hi) ==
    IF input < lo \/ input > hi THEN [err |-> TRUE, out |-> 0]
    ELSE [err |-> FALSE, out |-> Scaled(input, scale, den)]

\* floats: amplitudes in units of 2^-24 (the spacing of floats below 1.0),
\* frequencies in units of 1/8 Hz, durations in whole milliseconds
AmpDen == Pow2(24)
FreqDen == Pow2(3)
PWLE_LEVEL_MIN == 0
PWLE_LEVEL_MAX == AmpDen
CS40L26_PWLE_LEVEL_MIN == 0 - AmpDen
\* 0.9995118f = 2047/2048 + 2^-24
CS40L26_PWLE_LEVEL_MAX == 2047 * Pow2(13) + 1
PWLE_FREQUENCY_MIN_HZ == FreqDen
PWLE_FREQUENCY_MAX_HZ == 1000 * FreqDen

constructPwleSegment(c, delay, amplitude, frequency, flags, vbemfTarget) ==
    LET w1 == write(c, 16, delay)
        w2 == write(w1, 12, amplitude)
        w3 == write(w2, 12, frequency)
        \* (flags | 1) << 4: the flags in use have bit 0 clear
        w4 == write(w3, 8, (flags + 1) * 16)
    IN  IF (flags \div PWLE_AMP_REG_BIT) % 2 = 1
        THEN write(w4, 24, vbemfTarget)
        ELSE w4

\* DspMemChunk(type, size)
DspMemChunk(type, size) ==
    LET fresh == [waveformType |-> type, max |-> size, current |-> 0,
                  bytes |-> 0, cache |-> ZeroWord, cachebits |-> 0,
                  head |-> <<>>, stray |-> 0, ret |-> "OK", wret |-> "OK"]
    IN  IF type = WAVEFORM_COMPOSE
        THEN write(write(write(fresh, 8, 0), 8, 0), 8, 0)
        ELSE IF type = WAVEFORM_PWLE
        THEN write(write(write(write(fresh, 24, 0), 8, 0), 12, 0), 8, 0)
        ELSE fresh

\* a flush() that leaves the pending bits in the cache
flushNothing(c) == [c EXCEPT !.ret = "OK"]

flush(c) ==
    IF c.cachebits = 0 THEN [c EXCEPT !.ret = "OK"]
    ELSE LET w == write(c, 24 - c.cachebits, 0) IN [w EXCEPT !.ret = w.wret]

constructComposeSegment(c, effectVolLevel, effectIndex, repeat, flags, nextEffectDelay) ==
    IF c.waveformType # WAVEFORM_COMPOSE THEN [c EXCEPT !.ret = "EDOM"]
    ELSE IF effectVolLevel > 100 \/ effectIndex > WAVEFORM_MAX_PHYSICAL_INDEX
    THEN [c EXCEPT !.ret = "EINVAL"]
    ELSE LET w1 == write(c, 8, effectVolLevel)
             w2 == write(w1, 8, effectIndex)
             w3 == write(w2, 8, repeat)
             w4 == write(w3, 8, flags)
             w5 == write(w4, 16, nextEffectDelay)
         IN  [w5 EXCEPT !.ret = "OK"]

constructActiveSegment(c, duration, amplitude, frequency, chirp) ==
    LET delay == fToU16(duration, 4, 1, 0, COMPOSE_PWLE_PRIMITIVE_DURATION_MAX_MS)
        amp == fToU16(amplitude, 2048, AmpDen, CS40L26_PWLE_LEVEL_MIN,
                      CS40L26_PWLE_LEVEL_MAX)
        freq == fToU16(frequency, 4, FreqDen, PWLE_FREQUENCY_MIN_HZ,
                       PWLE_FREQUENCY_MAX_HZ)
        flags == IF chirp THEN PWLE_CHIRP_BIT ELSE 0
    IN  IF c.waveformType # WAVEFORM_PWLE THEN [c EXCEPT !.ret = "EDOM"]
        ELSE IF delay.err \/ amp.err \/ freq.err THEN [c EXCEPT !.ret = "ERANGE"]
        ELSE [constructPwleSegment(c, delay.out, amp.out, freq.out, flags, 0)
              EXCEPT !.ret = "OK"]

\* brakingType is the value of the Braking enumerator (NONE = 0, CLAB = 1)
constructBrakingSegment(c, duration, brakingType) ==
    LET delay == fToU16(duration, 4, 1, 0, COMPOSE_PWLE_PRIMITIVE_DURATION_MAX_MS)
        freq == fToU16(PWLE_FREQUENCY_MIN_HZ, 4, FreqDen, PWLE_FREQUENCY_MIN_HZ,
                       PWLE_FREQUENCY_MAX_HZ)
        flags == IF brakingType # 0 THEN PWLE_BRAKE_BIT ELSE 0
    IN  IF c.waveformType # WAVEFORM_PWLE THEN [c EXCEPT !.ret = "EDOM"]
        ELSE IF delay.err THEN [c EXCEPT !.ret = "ERANGE"]
        ELSE [constructPwleSegment(c, delay.out, 0, freq.out, flags, 0)
              EXCEPT !.ret = "OK"]

\* front()[k], and *(front() + k) = b
front(c, k) == IF k < Len(c.head) THEN c.head[k + 1] ELSE 0
Poke(c, k, b) ==
    [c EXCEPT !.head = [i \in 1 .. (IF k < Len(@) THEN Len(@) ELSE k + 1) |->
                           IF i = k + 1 THEN b
                           ELSE IF i <= Len(@) THEN @[i] ELSE 0]]

\* updateWLength without the marker of a computed length
updateWLengthPlain(c, totalDuration) ==
    IF c.waveformType # WAVEFORM_PWLE THEN [c EXCEPT !.ret = "EDOM"]
    ELSE IF totalDuration > 524287 THEN [c EXCEPT !.ret = "EINVAL"]
    ELSE LET t == totalDuration * 8
             p1 == Poke(c, 1, (t \div Pow2(16)) % 256)
             p2 == Poke(p1, 2, (t \div Pow2(8)) % 256)
             p3 == Poke(p2, 3, t % 256)
         IN  [p3 EXCEPT !.ret = "OK"]

updateWLength(c, totalDuration) ==
    IF c.waveformType # WAVEFORM_PWLE THEN [c EXCEPT !.ret = "EDOM"]
    ELSE IF totalDuration > 524287 THEN [c EXCEPT !.ret = "EINVAL"]
    ELSE LET t == totalDuration * 8 + WT_LEN_CALCD
             p0 == Poke(c, 0, (t \div Pow2(24)) % 256)
             p1 == Poke(p0, 1, (t \div Pow2(16)) % 256)
             p2 == Poke(p1, 2, (t \div Pow2(8)) % 256)
             p3 == Poke(p2, 3, t % 256)
         IN  [p3 EXCEPT !.ret = "OK"]

\* updateNSection with the whole count in one byte
updateNSectionFlat(c, segmentIdx) ==
    IF segmentIdx > COMPOSE_PWLE_SIZE_MAX_DEFAULT THEN [c EXCEPT !.ret = "EINVAL"]
    ELSE [Poke(c, 7, ByteOr(front(c, 7), segmentIdx % 256)) EXCEPT !.ret = "OK"]

updateNSection(c, segmentIdx) ==
    IF c.waveformType = WAVEFORM_COMPOSE
    THEN IF segmentIdx > COMPOSE_SIZE_MAX + 1 THEN [c EXCEPT !.ret = "EINVAL"]
         ELSE [Poke(c, 2, segmentIdx % 256) EXCEPT !.ret = "OK"]
    ELSE IF c.waveformType = WAVEFORM_PWLE
    THEN IF segmentIdx > COMPOSE_PWLE_SIZE_MAX_DEFAULT
         THEN [c EXCEPT !.ret = "EINVAL"]
         ELSE LET hi == Poke(c, 7, ByteOr(front(c, 7), (segmentIdx \div 16) % 16))
                  lo == Poke(hi, 9, ByteOr(front(hi, 9), (segmentIdx % 16) * 16))
              IN  [lo EXCEPT !.ret = "OK"]
    ELSE [c EXCEPT !.ret = "EDOM"]

\* ================================================================ compose
\* CompositePrimitive by its enumerator value; NOOP is 0, CLICK is 1, the
\* last enumerator LOW_TICK is 8
NOOP == 0
CLICK == 1
LOW_TICK == 8

\* the constructor's tables, indexed from 0 in the program
mEffectDurations ==
    <<1000, 100, 12, 1000, 300, 130, 150, 500, 100, 5, 12, 1000, 1000, 1000>>
mPrimitiveMaxScale == <<100, 95, 75, 90, 100, 100, 100, 75, 75>>
mPrimitiveMinScale == <<0, 1, 11, 23, 0, 25, 2, 3, 16>>
\* no calibration restricts the primitives: all of them are supported
mSupportedPrimitives == NOOP .. LOW_TICK
mTickEffectVol == <<CalTickVolMin, CalTickVolMax>>
mLongEffectVol == <<CalLongVolMin, CalLongVolMax>>

\* getPrimitiveDetails: the status, and the effect index when it is ok
getPrimitiveDetails(primitive) ==
    IF primitive \notin mSupportedPrimitives
    THEN [status |-> "EX_UNSUPPORTED_OPERATION", effectIndex |-> 0]
    ELSE IF primitive = NOOP
    THEN [status |-> "EX_ILLEGAL_ARGUMENT", effectIndex |-> 0]
    ELSE [status |-> "OK",
          effectIndex |-> <<WAVEFORM_CLICK_INDEX, 4, 5, 6, 7, 8,
                            WAVEFORM_LIGHT_TICK_INDEX, 10>>[primitive]]

\* intensityToVolLevel, the intensity in hundredths
intensityToVolLevel(intensity, effectIndex) ==
    LET v == IF effectIndex = WAVEFORM_LIGHT_TICK_INDEX THEN mTickEffectVol
             ELSE IF effectIndex \in {6, 8} THEN mLongEffectVol
             ELSE mClickEffectVol
    IN  RoundDiv(intensity * (v[2] - v[1]), 100) + v[1]

\* status is what the call returns: "" while it runs, "performEffect" when
\* it returns whatever performEffect does
Reject(status) == [enc EXCEPT !.pc = "done", !.status = status]

\* the size check of compose() on a composition of n entries, and a faulty
\* variant that lets one entry more through
InvalidSizeLate(n) == n > COMPOSE_SIZE_MAX + 1 \/ n = 0
InvalidSize(n) == n > COMPOSE_SIZE_MAX \/ n = 0

\* the check of a section that neither plays nor waits, and two faulty
\* variants: one that lets every section through, one that rejects every
\* section without an effect
MeaninglessNever(effectIndex, nextEffectDelay) == FALSE
MeaninglessNoop(effectIndex, nextEffectDelay) == effectIndex = 0
Meaningless(effectIndex, nextEffectDelay) ==
    effectIndex = 0 /\ nextEffectDelay = 0

\* compose(), up to the loop over the entries
ComposeEnter ==
    /\ enc.pc = "compose"
    /\ IF InvalidSize(Len(composite))
       THEN /\ enc' = Reject("EX_ILLEGAL_ARGUMENT")
            /\ UNCHANGED ch
       ELSE LET nextEffectDelay == U16(composite[1].delayMs)
                built == DspMemChunk(WAVEFORM_COMPOSE, FF_CUSTOM_DATA_LEN_MAX_COMP)
            IN  IF nextEffectDelay > COMPOSE_DELAY_MAX_MS \/ nextEffectDelay < 0
                THEN /\ enc' = [Reject("EX_ILLEGAL_ARGUMENT") EXCEPT
                                !.nextEffectDelay = nextEffectDelay,
                                !.totalDuration = nextEffectDelay]
                     /\ UNCHANGED ch
                ELSE /\ enc' = [enc EXCEPT
                                !.pc = "loop",
                                !.nextEffectDelay = nextEffectDelay,
                                !.totalDuration = nextEffectDelay,
                                !.size = U16(Len(composite)
                                             + IF nextEffectDelay > 0 THEN 1 ELSE 0),
                                !.header_count = built.bytes % 256]
                     /\ ch' = IF nextEffectDelay # 0
                              THEN constructComposeSegment(built, 0, 0, 0, 0,
                                                           nextEffectDelay)
                              ELSE built
    /\ UNCHANGED <<vib, composite>>

\* one iteration of the loop: the entry at i_curr, with the delay of the
\* entry behind it
ComposeEntry ==
    /\ enc.pc = "loop"
    /\ enc.i_curr < Len(composite)
    /\ LET e_curr == composite[enc.i_curr + 1]
           i_next == enc.i_curr + 1
           details == getPrimitiveDetails(e_curr.primitive)
           effectIndex == IF e_curr.primitive # NOOP THEN details.effectIndex ELSE 0
           upper == mPrimitiveMaxScale[e_curr.primitive + 1]
           lower == mPrimitiveMinScale[e_curr.primitive + 1]
           capped == IF e_curr.scale > upper THEN upper ELSE e_curr.scale
           effectScale == IF capped < lower THEN lower ELSE capped
           effectVolLevel == IF e_curr.primitive # NOOP
                             THEN intensityToVolLevel(effectScale, effectIndex)
                             ELSE 0
           played == IF e_curr.primitive # NOOP
                     THEN U16(enc.totalDuration + mEffectDurations[effectIndex + 1])
                     ELSE enc.totalDuration
           delay == IF i_next < Len(composite) THEN composite[i_next + 1].delayMs
                    ELSE 0
           nextEffectDelay == U16(delay)
       IN  IF e_curr.scale < 0 \/ e_curr.scale > 100
           THEN enc' = Reject("EX_ILLEGAL_ARGUMENT") /\ UNCHANGED ch
           ELSE IF e_curr.primitive # NOOP /\ details.status # "OK"
           THEN enc' = Reject(details.status) /\ UNCHANGED ch
           ELSE IF delay > COMPOSE_DELAY_MAX_MS \/ delay < 0
           THEN /\ enc' = [Reject("EX_ILLEGAL_ARGUMENT") EXCEPT
                           !.totalDuration = played]
                /\ UNCHANGED ch
           ELSE IF Meaningless(effectIndex, nextEffectDelay)
           THEN /\ enc' = [Reject("EX_ILLEGAL_ARGUMENT") EXCEPT
                           !.nextEffectDelay = nextEffectDelay,
                           !.totalDuration = U16(played + delay)]
                /\ UNCHANGED ch
           ELSE /\ enc' = [enc EXCEPT !.i_curr = i_next,
                                      !.nextEffectDelay = nextEffectDelay,
                                      !.totalDuration = U16(played + delay)]
                /\ ch' = constructComposeSegment(ch, effectVolLevel, effectIndex,
                                                 0, 0, nextEffectDelay)
    /\ UNCHANGED <<vib, composite>>

\* behind the loop: flush, the section count, the check of the blob's size
ComposeFinish ==
    /\ enc.pc = "loop"
    /\ enc.i_curr = Len(composite)
    /\ LET flushed == flush(ch)
           counted == updateNSection(flushed, enc.size)
       IN  /\ ch' = counted
           /\ enc' = IF counted.ret # "OK" THEN Reject("EX_ILLEGAL_ARGUMENT")
                     ELSE IF enc.header_count = counted.bytes
                     THEN Reject("EX_ILLEGAL_ARGUMENT")
                     ELSE [enc EXCEPT !.pc = "perform", !.status = "performEffect"]
    /\ UNCHANGED <<vib, composite>>

\* return performEffect(WAVEFORM_MAX_INDEX, VOLTAGE_SCALE_MAX, &ch, callback)
EncoderPerform ==
    /\ enc.pc = "perform"
    /\ \E cb \in BOOLEAN :
        performEffect(1, [effectIndex |-> WAVEFORM_MAX_INDEX,
                          volLevel |-> VOLTAGE_SCALE_MAX,
                          ch |-> ch.waveformType], cb)

\* ----- the compositions compose() is given
\* a leading or inter-step delay: every boundary of the accepted range, the
\* 32-bit extremes, and values that agree with accepted ones in 16 bits
ComposeDelays ==
    {-2147483647 - 1, -1, 0, SomeDelayMs, COMPOSE_DELAY_MAX_MS,
     COMPOSE_DELAY_MAX_MS + 1, 65536, 65536 + SomeDelayMs, 2147483647}

Entry(primitive, scale, delayMs) ==
    [primitive |-> primitive, scale |-> scale, delayMs |-> delayMs]

ComposeEntries ==
    {Entry(p, 100, d) : p \in {NOOP, CLICK}, d \in ComposeDelays}
    \cup {Entry(CLICK, 150, 0), Entry(LOW_TICK + 1, 100, 0)}

Compositions(n) == UNION {[1 .. k -> ComposeEntries] : k \in 0 .. n}

\* long compositions: one entry followed by clicks without delay
Filled(e, n) == <<e>> \o [i \in 1 .. n |-> Entry(CLICK, 100, 0)]
LongCompositions ==
    {Filled(Entry(CLICK, 100, d), n) :
        d \in {0, SomeDelayMs, 65536},
        n \in {COMPOSE_SIZE_MAX - 1, COMPOSE_SIZE_MAX}}

\* slow compositions: clicks that each wait the longest accepted delay
SlowCompositions ==
    {[i \in 1 .. n |-> Entry(CLICK, 100, COMPOSE_DELAY_MAX_MS)] : n \in {SlowLen - 1, SlowLen}}

InitCompose ==
    /\ mIsDual = FALSE
    /\ mGPIOStatus = FALSE
    /\ mF0Offset = 0
    /\ mF0OffsetDual = 0
    /\ mClickEffectVol = <<CalClickVolMin, CalClickVolMax>>
    /\ Constructed
    /\ composite \in Compositions(MaxComposeLen) \cup LongCompositions
                    \cup SlowCompositions
    /\ enc = [NoLocals EXCEPT !.pc = "compose", !.op = "compose"]
    /\ ch = NoChunk

NextCompose ==
    \/ ComposeEnter
    \/ ComposeEntry
    \/ ComposeFinish
    \/ EncoderPerform

SpecCompose == InitCompose /\ [][NextCompose]_vars

\* compose() on devices of any click calibration. The click volume levels a
\* calibration file can hold: the levels of the other specifications, the
\* whole scale, and a maximum above the scale
ClickCalibrations ==
    {<<CalClickVolMin, CalClickVolMax>>, <<1, VOLTAGE_SCALE_MAX>>, <<1, HighClickVolMax>>}

InitComposeCal ==
    /\ mIsDual = FALSE
    /\ mGPIOStatus = FALSE
    /\ mF0Offset = 0
    /\ mF0OffsetDual = 0
    /\ mClickEffectVol \in ClickCalibrations
    /\ Constructed
    /\ composite \in Compositions(MaxComposeLen)
    /\ enc = [NoLocals EXCEPT !.pc = "compose", !.op = "compose"]
    /\ ch = NoChunk

SpecComposeCal == InitComposeCal /\ [][NextCompose]_vars

\* ============================================================ composePwle
\* Braking by its enumerator value
BrakingNONE == 0
BrakingCLAB == 1
\* getSupportedBraking: NONE alone
SupportedBraking == {BrakingNONE}

\* resetPreviousEndAmplitudeEndFrequency: both become -1.0; a faulty
\* variant leaves them
ResetPreviousKept(l) == l
ResetPrevious(l) ==
    [l EXCEPT !.prevEndAmplitude = 0 - AmpDen, !.prevEndFrequency = 0 - FreqDen]

\* the clamp of an amplitude to the device's ceiling
Clamp(amplitude) ==
    IF amplitude > CS40L26_PWLE_LEVEL_MAX THEN CS40L26_PWLE_LEVEL_MAX
    ELSE amplitude

\* whether an active segment needs its start point written: it does unless
\* the start point is the end point of the segment before; a faulty
\* variant compares the amplitude alone
NeedsSetPointAmplitude(l, startAmplitude, startFrequency) ==
    ~(startAmplitude = l.prevEndAmplitude)
NeedsSetPoint(l, startAmplitude, startFrequency) ==
    ~(startAmplitude = l.prevEndAmplitude /\ startFrequency = l.prevEndFrequency)

\* the chirp flag of an active segment, and a faulty variant that compares
\* the frequencies as they are encoded
IsChirpEncoded(startFrequency, endFrequency) ==
    Scaled(startFrequency, 4, FreqDen) # Scaled(endFrequency, 4, FreqDen)
IsChirp(startFrequency, endFrequency) == startFrequency # endFrequency

\* the frequency check of an active segment, and a faulty variant with
\* exclusive bounds
BadFrequencyExclusive(f) == f <= PWLE_FREQUENCY_MIN_HZ \/ f >= PWLE_FREQUENCY_MAX_HZ
BadFrequency(f) == f < PWLE_FREQUENCY_MIN_HZ \/ f > PWLE_FREQUENCY_MAX_HZ

\* the cold-start latency added to the total, and a faulty variant
\* without it
StartLatencyNone == MAX_COLD_START_LATENCY_MS - MAX_COLD_START_LATENCY_MS
StartLatency == MAX_COLD_START_LATENCY_MS

\* composePwle(), up to the loop over the primitives
PwleEnter ==
    /\ enc.pc = "composePwle"
    /\ IF ~enc.capable
       THEN enc' = Reject("EX_UNSUPPORTED_OPERATION") /\ UNCHANGED ch
       ELSE IF composite = <<>> \/ Len(composite) > COMPOSE_PWLE_SIZE_MAX_DEFAULT
       THEN enc' = Reject("EX_ILLEGAL_ARGUMENT") /\ UNCHANGED ch
       ELSE /\ enc' = ResetPrevious([enc EXCEPT !.pc = "pwle_loop"])
            /\ ch' = DspMemChunk(WAVEFORM_PWLE, FF_CUSTOM_DATA_LEN_MAX_PWLE)
    /\ UNCHANGED <<vib, composite>>

\* behind the switch: the check of the section count, and a faulty variant
\* without it
PwleCountedNever(l) == l
PwleCounted(l) ==
    IF l.segmentIdx > COMPOSE_PWLE_SIZE_MAX_DEFAULT
    THEN [l EXCEPT !.pc = "done", !.status = "EX_ILLEGAL_ARGUMENT"]
    ELSE l

\* one iteration of the loop on an active primitive
PwleActive ==
    /\ enc.pc = "pwle_loop"
    /\ enc.i_curr < Len(composite)
    /\ composite[enc.i_curr + 1].tag = "active"
    /\ LET active == composite[enc.i_curr + 1]
           startAmplitude == Clamp(active.startAmplitude)
           endAmplitude == Clamp(active.endAmplitude)
           setPoint == NeedsSetPoint(enc, startAmplitude, active.startFrequency)
           pointed == IF setPoint
                      THEN constructActiveSegment(ch, 0, startAmplitude,
                                                  active.startFrequency, FALSE)
                      ELSE ch
           chirp == IsChirp(active.startFrequency, active.endFrequency)
           ramped == constructActiveSegment(pointed, active.duration, endAmplitude,
                                            active.endFrequency, chirp)
       IN  IF active.duration < 0
              \/ active.duration > COMPOSE_PWLE_PRIMITIVE_DURATION_MAX_MS
           THEN enc' = Reject("EX_ILLEGAL_ARGUMENT") /\ UNCHANGED ch
           ELSE IF \/ active.startAmplitude < PWLE_LEVEL_MIN
                   \/ active.startAmplitude > PWLE_LEVEL_MAX
                   \/ active.endAmplitude < PWLE_LEVEL_MIN
                   \/ active.endAmplitude > PWLE_LEVEL_MAX
           THEN enc' = Reject("EX_ILLEGAL_ARGUMENT") /\ UNCHANGED ch
           ELSE IF BadFrequency(active.startFrequency)
                   \/ BadFrequency(active.endFrequency)
           THEN enc' = Reject("EX_ILLEGAL_ARGUMENT") /\ UNCHANGED ch
           ELSE IF setPoint /\ pointed.ret # "OK"
           THEN enc' = Reject("EX_ILLEGAL_ARGUMENT") /\ ch' = pointed
           ELSE IF ramped.ret # "OK"
           THEN /\ enc' = [Reject("EX_ILLEGAL_ARGUMENT") EXCEPT
                           !.segmentIdx = @ + (IF setPoint THEN 1 ELSE 0)]
                /\ ch' = ramped
           ELSE /\ enc' = PwleCounted(
                        [enc EXCEPT !.i_curr = @ + 1,
                                    !.segmentIdx = @ + (IF setPoint THEN 2 ELSE 1),
                                    !.prevEndAmplitude = endAmplitude,
                                    !.prevEndFrequency = active.endFrequency,
                                    !.totalDuration = @ + active.duration])
                /\ ch' = ramped
    /\ UNCHANGED <<vib, composite>>

\* one iteration of the loop on a braking primitive
PwleBraking ==
    /\ enc.pc = "pwle_loop"
    /\ enc.i_curr < Len(composite)
    /\ composite[enc.i_curr + 1].tag = "braking"
    /\ LET braking == composite[enc.i_curr + 1]
           pointed == constructBrakingSegment(ch, 0, braking.braking)
           held == constructBrakingSegment(pointed, braking.duration,
                                           braking.braking)
       IN  IF braking.braking > BrakingCLAB
           THEN enc' = Reject("EX_ILLEGAL_ARGUMENT") /\ UNCHANGED ch
           ELSE IF BrakingCLAB \notin SupportedBraking
                   /\ braking.braking = BrakingCLAB
           THEN enc' = Reject("EX_ILLEGAL_ARGUMENT") /\ UNCHANGED ch
           ELSE IF braking.duration > COMPOSE_PWLE_PRIMITIVE_DURATION_MAX_MS
           THEN enc' = Reject("EX_ILLEGAL_ARGUMENT") /\ UNCHANGED ch
           ELSE IF pointed.ret # "OK"
           THEN enc' = Reject("EX_ILLEGAL_ARGUMENT") /\ ch' = pointed
           ELSE IF held.ret # "OK"
           THEN /\ enc' = [Reject("EX_ILLEGAL_ARGUMENT") EXCEPT
                           !.segmentIdx = @ + 1]
                /\ ch' = held
           ELSE /\ enc' = PwleCounted(ResetPrevious(
                        [enc EXCEPT !.i_curr = @ + 1,
                                    !.segmentIdx = @ + 2,
                                    !.totalDuration = @ + braking.duration]))
                /\ ch' = held
    /\ UNCHANGED <<vib, composite>>

\* behind the loop: flush, the waveform length, the section count
PwleFinish ==
    /\ enc.pc = "pwle_loop"
    /\ enc.i_curr = Len(composite)
    /\ LET flushed == flush(ch)
           totalDuration == enc.totalDuration + StartLatency
           timed == updateWLength(flushed, totalDuration)
           counted == updateNSection(timed, enc.segmentIdx)
           late == [enc EXCEPT !.totalDuration = totalDuration]
       IN  IF totalDuration > 524287
           THEN /\ enc' = [late EXCEPT !.pc = "done",
                                       !.status = "EX_ILLEGAL_ARGUMENT"]
                /\ ch' = flushed
           ELSE IF timed.ret # "OK"
           THEN /\ enc' = [late EXCEPT !.pc = "done",
                                       !.status = "EX_ILLEGAL_ARGUMENT"]
                /\ ch' = timed
           ELSE IF counted.ret # "OK"
           THEN /\ enc' = [late EXCEPT !.pc = "done",
                                       !.status = "EX_ILLEGAL_ARGUMENT"]
                /\ ch' = counted
           ELSE /\ enc' = [late EXCEPT !.pc = "perform",
                                       !.status = "performEffect"]
                /\ ch' = counted
    /\ UNCHANGED <<vib, composite>>

\* ----- the envelopes composePwle() is given
Active(duration, startAmplitude, endAmplitude, startFrequency, endFrequency) ==
    [tag |-> "active", duration |-> duration,
     startAmplitude |-> startAmplitude, endAmplitude |-> endAmplitude,
     startFrequency |-> startFrequency, endFrequency |-> endFrequency,
     braking |-> 0]
Brake(duration, braking) ==
    [tag |-> "braking", duration |-> duration, startAmplitude |-> 0,
     endAmplitude |-> 0, startFrequency |-> 0, endFrequency |-> 0,
     braking |-> braking]

Hz(f) == f * FreqDen
HalfLevel == AmpDen \div 2

\* ramps and chirps that follow on one another or do not, amplitudes at,
\* above and below the device's ceiling, and every bound of the ranges
\* with its neighbours
PwlePrimitives ==
    {Active(SomeDurationMs, 0, HalfLevel, Hz(SomeFrequencyHz), Hz(SomeFrequencyHz)),
     Active(SomeDurationMs, HalfLevel, 0, Hz(SomeFrequencyHz), Hz(1000)),
     Active(SomeDurationMs, HalfLevel, HalfLevel, Hz(SomeFrequencyHz) - 1,
            Hz(SomeFrequencyHz)),
     Active(SomeDurationMs, PWLE_LEVEL_MAX, PWLE_LEVEL_MAX, Hz(1), Hz(1000)),
     Active(SomeDurationMs, CS40L26_PWLE_LEVEL_MAX, HalfLevel, Hz(1000), Hz(1000)),
     Active(0, 0, 0, Hz(1), Hz(1)),
     Active(COMPOSE_PWLE_PRIMITIVE_DURATION_MAX_MS, HalfLevel, HalfLevel,
            Hz(SomeFrequencyHz), Hz(SomeFrequencyHz)),
     Active(-1, 0, 0, Hz(1), Hz(1)),
     Active(COMPOSE_PWLE_PRIMITIVE_DURATION_MAX_MS + 1, 0, 0, Hz(1), Hz(1)),
     Active(SomeDurationMs, -1, 0, Hz(1), Hz(1)),
     Active(SomeDurationMs, 0, PWLE_LEVEL_MAX + 1, Hz(1), Hz(1)),
     Active(SomeDurationMs, 0, 0, Hz(1) - 1, Hz(1)),
     Active(SomeDurationMs, 0, 0, Hz(1), Hz(1000) + 1),
     Active(SomeDurationMs, 0, 0, Hz(0), Hz(1)),
     Active(SomeDurationMs, 0, 0, Hz(1), Hz(1001)),
     Brake(SomeBrakeMs, BrakingNONE),
     Brake(SomeBrakeMs, BrakingCLAB),
     Brake(SomeBrakeMs, BrakingCLAB + 1),
     Brake(COMPOSE_PWLE_PRIMITIVE_DURATION_MAX_MS + 1, BrakingNONE),
     Brake(-1, BrakingNONE)}

Envelopes(n) == UNION {[1 .. k -> PwlePrimitives] : k \in 0 .. n}

\* long envelopes: one ramp followed by as many ramps of the longest
\* duration as the waveform length has room for
LongRamp ==
    Active(COMPOSE_PWLE_PRIMITIVE_DURATION_MAX_MS, HalfLevel, HalfLevel,
           Hz(SomeFrequencyHz), Hz(SomeFrequencyHz))
LongRamps ==
    (524287 - MAX_COLD_START_LATENCY_MS)
        \div COMPOSE_PWLE_PRIMITIVE_DURATION_MAX_MS
LongRest ==
    (524287 - MAX_COLD_START_LATENCY_MS)
        % COMPOSE_PWLE_PRIMITIVE_DURATION_MAX_MS
LongEnvelopes ==
    {<<Active(d, HalfLevel, HalfLevel, Hz(SomeFrequencyHz), Hz(SomeFrequencyHz))>>
         \o [i \in 1 .. LongRamps |-> LongRamp] : d \in {LongRest, LongRest + 1}}

\* envelopes of many sections: brakings of two sections each, alone (126,
\* 128 and 130 sections) and behind two ramps of three sections (127)
HalfCeiling == (COMPOSE_PWLE_SIZE_MAX_DEFAULT + 1) \div 2
Brakings(n) == [i \in 1 .. n |-> Brake(SomeBrakeMs, BrakingNONE)]
ManySections ==
    {Brakings(n) : n \in HalfCeiling - 1 .. HalfCeiling + 1}
    \cup {<<Active(SomeDurationMs, 0, HalfLevel, Hz(SomeFrequencyHz), Hz(SomeFrequencyHz)),
            Active(SomeDurationMs, HalfLevel, 0, Hz(SomeFrequencyHz), Hz(1000))>>
              \o Brakings(HalfCeiling - 2)}

\* a braking between a ramp and a ramp that starts where the first ended
BrakeBetween ==
    <<Active(SomeDurationMs, 0, HalfLevel, Hz(SomeFrequencyHz), Hz(SomeFrequencyHz)),
      Brake(SomeBrakeMs, BrakingNONE),
      Active(SomeDurationMs, HalfLevel, 0, Hz(SomeFrequencyHz), Hz(1000))>>

InitPwle ==
    /\ mIsDual = FALSE
    /\ mGPIOStatus = FALSE
    /\ mF0Offset = 0
    /\ mF0OffsetDual = 0
    /\ mClickEffectVol = <<CalClickVolMin, CalClickVolMax>>
    /\ Constructed
    /\ composite \in Envelopes(MaxPwleLen) \cup LongEnvelopes \cup {BrakeBetween}
                    \cup ManySections
    /\ \E capable \in BOOLEAN :
        enc = [NoLocals EXCEPT !.pc = "composePwle", !.op = "composePwle",
                               !.capable = capable]
    /\ ch = NoChunk

NextPwle ==
    \/ PwleEnter
    \/ PwleActive
    \/ PwleBraking
    \/ PwleFinish
    \/ EncoderPerform

SpecPwle == InitPwle /\ [][NextPwle]_vars

\* ===================================================== DspMemChunk alone
\* A chunk of either type under one of its segment constructors, called
\* over and over, with or without a flush() behind every call. Storing
\* behind _max is undefined behaviour: the chunk is left alone once that
\* has happened.
ChunkOps ==
    {[name |-> "compose", volume |-> VOLTAGE_SCALE_MAX, index |-> WAVEFORM_CLICK_INDEX,
      delay |-> SomeDelayMs],
     [name |-> "compose", volume |-> VOLTAGE_SCALE_MAX + 1, index |-> WAVEFORM_CLICK_INDEX,
      delay |-> SomeDelayMs],
     [name |-> "active", duration |-> SomeDurationMs, amplitude |-> HalfLevel,
      frequency |-> Hz(SomeFrequencyHz), chirp |-> TRUE],
     [name |-> "braking", duration |-> SomeBrakeMs, braking |-> BrakingNONE]}

Capacity(type) ==
    IF type = WAVEFORM_COMPOSE THEN FF_CUSTOM_DATA_LEN_MAX_COMP
    ELSE FF_CUSTOM_DATA_LEN_MAX_PWLE

Defined == ch # NoChunk /\ ch.stray = 0

ChunkNew ==
    /\ enc.pc = "chunk"
    /\ ch = NoChunk
    /\ ch' = DspMemChunk(composite[1].type, Capacity(composite[1].type))
    /\ UNCHANGED <<vib, composite, enc>>

ChunkSegment ==
    /\ enc.pc = "chunk"
    /\ Defined
    /\ LET op == composite[1].op
       IN  ch' = IF op.name = "compose"
                 THEN constructComposeSegment(ch, op.volume, op.index, 0, 0,
                                              op.delay)
                 ELSE IF op.name = "active"
                 THEN constructActiveSegment(ch, op.duration, op.amplitude,
                                             op.frequency, op.chirp)
                 ELSE constructBrakingSegment(ch, op.duration, op.braking)
    /\ enc' = [enc EXCEPT !.pc = IF composite[1].flush THEN "chunk_flush"
                                 ELSE "chunk"]
    /\ UNCHANGED <<vib, composite>>

ChunkFlush ==
    /\ enc.pc = "chunk_flush"
    /\ Defined
    /\ ch' = flush(ch)
    /\ enc' = [enc EXCEPT !.pc = "chunk"]
    /\ UNCHANGED <<vib, composite>>

\* the arguments of updateWLength (a uint32_t) and updateNSection
DurationsMs == {0, 1, 65535, 65536, 524287, 524288, 268435455}
SectionCounts == {0, 1, 15, 16, 100, 127, 128, 255}

\* a chunk whose cache is empty: the segments behind the header are flushed
Flushed == Defined /\ ch.cachebits = 0 /\ ch.wret = "OK"

ChunkLengthWith(totalDuration) ==
    /\ enc.pc = "chunk"
    /\ Flushed
    /\ ch' = updateWLength(ch, totalDuration)
    /\ enc' = [enc EXCEPT !.pc = "timed"]
    /\ UNCHANGED <<vib, composite>>

ChunkSectionsWith(segmentIdx) ==
    /\ enc.pc \in {"chunk", "timed"}
    /\ Flushed
    /\ ch' = updateNSection(ch, segmentIdx)
    /\ enc' = [enc EXCEPT !.pc = "counted"]
    /\ UNCHANGED <<vib, composite>>

InitChunk ==
    /\ mIsDual = FALSE
    /\ mGPIOStatus = FALSE
    /\ mF0Offset = 0
    /\ mF0OffsetDual = 0
    /\ mClickEffectVol = <<CalClickVolMin, CalClickVolMax>>
    /\ Constructed
    /\ \E type \in {WAVEFORM_COMPOSE, WAVEFORM_PWLE}, op \in ChunkOps,
          flushes \in BOOLEAN :
        composite = <<[type |-> type, op |-> op, flush |-> flushes]>>
    /\ enc = [NoLocals EXCEPT !.pc = "chunk", !.op = "chunk"]
    /\ ch = NoChunk

NextChunk ==
    \/ ChunkNew
    \/ ChunkSegment
    \/ ChunkFlush

SpecChunk == InitChunk /\ [][NextChunk]_vars

\* A chunk of a few segments under updateWLength and updateNSection, called
\* as composePwle calls them: behind the flush, the length first.
ShortSegment ==
    /\ ch # NoChunk
    /\ ch.bytes <= 8 * MaxChunkSegments
    /\ ChunkSegment

NextHeader ==
    \/ ChunkNew
    \/ ShortSegment
    \/ ChunkFlush
    \/ \E totalDuration \in DurationsMs : ChunkLengthWith(totalDuration)
    \/ \E segmentIdx \in SectionCounts : ChunkSectionsWith(segmentIdx)

SpecHeader == InitChunk /\ [][NextHeader]_vars

\* =============================================== DspMemChunk::write alone
\* A composition chunk (its header fills one 24-bit word) under a script of
\* write() calls and a flush(): a first write of 0 .. 23 bits that sets the
\* fill level of the cache, then up to MaxWrites writes of given widths and
\* values, some of which have bits set above the width.
WritePattern == 5592405 \* 0x555555

FillWrites == [k \in 1 .. 23 |-> [nbits |-> k, val |-> WritePattern % Pow2(k)]]

WriteInputs ==
    {[nbits |-> 1, val |-> 1], [nbits |-> 8, val |-> 0],
     [nbits |-> 8, val |-> 165], [nbits |-> 12, val |-> 2748],
     [nbits |-> 16, val |-> 65535], [nbits |-> 24, val |-> 11259375],
     [nbits |-> 8, val |-> 256], [nbits |-> 12, val |-> 63488]}

RECURSIVE WriteScripts(_)
WriteScripts(n) ==
    IF n = 0 THEN {<<>>}
    ELSE WriteScripts(n - 1)
         \cup {Append(s, w) : s \in WriteScripts(n - 1), w \in WriteInputs}

WriteNew ==
    /\ enc.pc = "write"
    /\ ch = NoChunk
    /\ ch' = DspMemChunk(WAVEFORM_COMPOSE, FF_CUSTOM_DATA_LEN_MAX_COMP)
    /\ UNCHANGED <<vib, composite, enc>>

WriteNext ==
    /\ enc.pc = "write"
    /\ ch # NoChunk
    /\ enc.i_curr < Len(composite)
    /\ ch' = write(ch, composite[enc.i_curr + 1].nbits, composite[enc.i_curr + 1].val)
    /\ enc' = [enc EXCEPT !.i_curr = @ + 1]
    /\ UNCHANGED <<vib, composite>>

WriteFlush ==
    /\ enc.pc = "write"
    /\ ch # NoChunk
    /\ enc.i_curr = Len(composite)
    /\ ch' = flush(ch)
    /\ enc' = [enc EXCEPT !.pc = "flushed"]
    /\ UNCHANGED <<vib, composite>>

InitWrite ==
    /\ mIsDual = FALSE
    /\ mGPIOStatus = FALSE
    /\ mF0Offset = 0
    /\ mF0OffsetDual = 0
    /\ mClickEffectVol = <<CalClickVolMin, CalClickVolMax>>
    /\ Constructed
    /\ \E k \in 0 .. 23, s \in WriteScripts(MaxWrites) \ {<<>>} :
        composite = (IF k = 0 THEN <<>> ELSE <<FillWrites[k]>>) \o s
    /\ enc = [NoLocals EXCEPT !.pc = "write", !.op = "write"]
    /\ ch = NoChunk

NextWrite ==
    \/ WriteNew
    \/ WriteNext
    \/ WriteFlush

SpecWrite == InitWrite /\ [][NextWrite]_vars

\* ======================================================= amplitudeToScale
\* The function alone, on amplitudes and maxima that are whole numbers (its
\* callers pass a uint8_t or uint32_t level and VOLTAGE_SCALE_MAX), and then
\* again on the amplitude that its result stands for.
ScaleAmplitudes == 0 .. MaxScaleAmplitude \cup {199, 200, 201, 255, 256, 65535}
ScaleMaxima == {0, 1, 3, 8, VOLTAGE_SCALE_MAX, 200, 255}

ScaleApply ==
    /\ enc.pc = "scale"
    /\ enc' = [enc EXCEPT !.pc = "scaled",
                          !.size = amplitudeToScale(composite[1].amplitude,
                                                    composite[1].maximum)]
    /\ UNCHANGED <<vib, composite, ch>>

\* result / 100 * maximum of a result of 100: the maximum itself
ScaleAgain ==
    /\ enc.pc = "scaled"
    /\ enc.header_count = 0
    /\ enc.size = 100
    /\ composite' = <<[composite[1] EXCEPT !.amplitude = composite[1].maximum]>>
    /\ enc' = [enc EXCEPT !.pc = "scale", !.header_count = 1]
    /\ UNCHANGED <<vib, ch>>

InitScale ==
    /\ mIsDual = FALSE
    /\ mGPIOStatus = FALSE
    /\ mF0Offset = 0
    /\ mF0OffsetDual = 0
    /\ mClickEffectVol = <<CalClickVolMin, CalClickVolMax>>
    /\ Constructed
    /\ \E amplitude \in ScaleAmplitudes, maximum \in ScaleMaxima :
        composite = <<[amplitude |-> amplitude, maximum |-> maximum,
                       first |-> amplitude]>>
    /\ enc = [NoLocals EXCEPT !.pc = "scale", !.op = "scale"]
    /\ ch = NoChunk

NextScale ==
    \/ ScaleApply
    \/ ScaleAgain

SpecScale == InitScale /\ [][NextScale]_vars

\* ================================================================ claims
\* the step in which caller c makes a call of on(timeoutMs) or performEffect
\* whose arguments pass the checks made before the wait on mAsyncHandle
StartStep(c) ==
    /\ call[c].pc = "idle"
    /\ call'[c].pc # "idle"
    /\ call'[c].op \in {"on", "perform"}
    /\ call'[c].cause.n \notin {"index", "timeout"}

\* the step in which on() fails past the wait
FailStep(c) ==
    /\ call[c].pc \in {"on_prepare", "on_play"}
    /\ call'[c].pc \in {"ret", "on_unlock"}
    /\ call'[c].status \notin {"", "OK"}

\* the last command of a section is one that failed
LastFailed(cmds) == cmds # <<>> /\ ~cmds[Len(cmds)].ok

\* C1: on() goes past its pending-check if and only if the task of
\* mAsyncHandle has finished when the bounded wait ends. If it has not, on()
\* returns IllegalState and uploads nothing, triggers nothing, leaves the
\* active id, the handle, the tasks and the hardware as they are. A request
\* made when the task has finished is accepted: past the check on() fails
\* only where a hardware command has failed.
C1_PendingCheck ==
    [][\A c \in Callers :
        /\ StartStep(c) =>
            /\ (call'[c].pc = "on_prepare") <=> (task[mAsyncHandle].pc = "done")
            /\ task[mAsyncHandle].pc # "done" =>
                /\ call'[c].pc = "ret"
                /\ call'[c].status = "EX_ILLEGAL_STATE"
                /\ call'[c].cause.n = "pending"
                /\ \A n \in {"upload", "edit", "edit_trigger", "play", "gpio"} :
                      ~IssuedAny(call'[c].cmds, n)
                /\ UNCHANGED <<mActiveId, mActiveId_mutex, mAsyncHandle, task, hw>>
        /\ FailStep(c) => LastFailed(call'[c].cmds)
        /\ call[c].pc \in {"on_spawn", "on_assign"} /\ call'[c].pc = "ret"
              => call'[c].status = "OK"
    ]_vars

\* a request turned down while the task of the previous effect still polls
C1_Witness ==
    \E c \in Callers :
        /\ call[c].pc = "ret"
        /\ call[c].cause.n = "pending"
        /\ task[mAsyncHandle].pc = "poll_stop"
        /\ mActiveId >= 0

\* the completion tasks spawned and not yet finished
Outstanding ==
    {t \in TaskIds : task[t].pc \in {"poll_haptic", "poll_stop", "poll_stop_flip",
                                     "cleanup", "unlock", "callback"}}

\* C2: in every reachable state, whatever the interleaving of the on() and
\* off() calls of concurrent caller threads, at most one completion task is
\* outstanding.
C2_AtMostOneTask == Cardinality(Outstanding) <= 1

\* the second of two concurrent starts has been handed its own task while the
\* task of the first still polls
C2_TwoTasks ==
    /\ Cardinality(Outstanding) = 2
    /\ \E c \in Callers : call[c].pc = "on_assign"

\* the events of a session, in the order the claim gives them
Chain == <<"accepted", "trigger", "stop", "cleanup", "callback">>

IsPrefix(s, t) == Len(s) <= Len(t) /\ \A i \in 1 .. Len(s) : s[i] = t[i]

\* sessions whose trigger has been issued and whose chain has not ended
InFlight ==
    Cardinality({c \in Callers : call[c].events # <<>>
                                 /\ call[c].events[Len(call[c].events)] = "trigger"})
    + Cardinality(Outstanding)

\* C3: the events of every session occur in the order accepted, trigger,
\* stop observed, cleanup, callback, and no second start issues its trigger
\* before the chain of the previous session has reached its end.
C3_SessionOrder ==
    /\ \A c \in Callers : IsPrefix(call[c].events, Chain)
    /\ \A t \in TaskIds :
        /\ IsPrefix(task[t].events, Chain)
        /\ task[t].pc = "done" /\ task[t].events # <<>> =>
              Len(task[t].events) = (IF task[t].cb THEN 5 ELSE 4)
    /\ InFlight <= 1

\* a second start has issued its trigger while the task of the first has
\* not yet observed the stop
C3_Overlap ==
    \E c \in Callers, t \in TaskIds :
        /\ call[c].pc = "on_unlock"
        /\ call[c].events = <<"accepted", "trigger">>
        /\ task[t].pc = "poll_stop"

\* on() of caller c is returning a failure caused by a hardware command
HwFailure(c) ==
    /\ call[c].op \in {"on", "perform"}
    /\ call[c].pc \in {"ret", "on_unlock"}
    /\ call[c].cause.n \in {"edit", "edit_trigger", "play", "gpio"}

\* C4: when on() fails because a duration edit, a trigger-binding edit, a
\* direct play or the GPIO assert fails, it returns IllegalState, the active
\* id is -1 when it returns and no completion task is spawned, in the
\* direct-play path and in the GPIO path, in single and in dual mode.
C4_FailedStartIdle ==
    \A c \in Callers :
        HwFailure(c) =>
            /\ call[c].status = "EX_ILLEGAL_STATE"
            /\ mActiveId = -1
            /\ Outstanding = {}

\* the GPIO assert failed: on() returns IllegalState and the active id is
\* the effect that was never triggered
C4_GpioFailure ==
    \E c \in Callers :
        /\ HwFailure(c)
        /\ call[c].cause.n = "gpio"
        /\ mGPIOStatus
        /\ mActiveId = WAVEFORM_LONG_VIBRATION_EFFECT_INDEX
        /\ \A a \in Actuators : hwPlay[a] = "idle"

\* the step of on() in which, in dual mode, the upload to the flip fails
\* after the upload to the base succeeded
FlipUploadFails(c) ==
    /\ mIsDual
    /\ call[c].pc = "on_prepare"
    /\ call[c].ch # 0
    /\ Done(call'[c].cmds, "upload", Base)
    /\ Issued(call'[c].cmds, "upload", Flip)
    /\ ~Done(call'[c].cmds, "upload", Flip)

\* C5: in dual mode, when the upload of a dynamic blob to the flip fails
\* after the upload to the base succeeded, on() returns IllegalState, leaves
\* the active id as it was (none, when none was active), triggers no
\* playback and spawns no completion task.
C5_FlipUploadFailure ==
    [][\A c \in Callers :
        FlipUploadFails(c) =>
            /\ call'[c].pc = "ret"
            /\ call'[c].status = "EX_ILLEGAL_STATE"
            /\ call'[c].cause = Cmd("upload", Flip, call[c].ch)
            /\ ~IssuedAny(call'[c].cmds, "play")
            /\ ~IssuedAny(call'[c].cmds, "gpio")
            /\ UNCHANGED <<mActiveId, mActiveId_mutex, mAsyncHandle, task,
                           hwPlay, gpioOut>>
    ]_vars

\* on() is returning the failure of the upload to the flip, with no effect
\* active and the base holding the slot of the upload that succeeded
C5_Witness ==
    \E c \in Callers :
        /\ call[c].pc = "ret"
        /\ call[c].cause.n = "upload"
        /\ call[c].cause.a = Flip
        /\ Done(call[c].cmds, "upload", Base)
        /\ mActiveId = -1
        /\ owt[Base] # {}
        /\ Outstanding = {}

\* the step in which caller c runs the body of off()
OffStep(c) == call[c].pc = "idle" /\ call'[c].op = "off"

\* every command of cmds is one of the gain reset and the F0 clear of off()
OnlyReset(cmds) ==
    \A i \in 1 .. Len(cmds) :
        \/ cmds[i].n = "gain" /\ cmds[i].v = VOLTAGE_SCALE_MAX
        \/ cmds[i].n = "f0" /\ cmds[i].v = 0

\* the gain reset and the F0 clear of off() are among cmds: gain 100 to the
\* base, and to the flip if the write to the base succeeded; F0 offset 0 to
\* the base if it has an offset, and then to the flip if it has one
ResetIssued(cmds) ==
    /\ \E i \in 1 .. Len(cmds) :
          cmds[i].n = "gain" /\ cmds[i].a = Base /\ cmds[i].v = VOLTAGE_SCALE_MAX
    /\ Issued(cmds, "gain", Flip) <=> (mIsDual /\ Done(cmds, "gain", Base))
    /\ Issued(cmds, "f0", Base) <=> (mF0Offset # 0)
    /\ Issued(cmds, "f0", Flip) <=> (mIsDual /\ mF0Offset # 0 /\ mF0OffsetDual # 0)
    /\ \A i \in 1 .. Len(cmds) : cmds[i].n = "f0" => cmds[i].v = 0

\* C6 as claimed: off() with no effect active returns OK, issues no stop
\* and no GPIO write, leaves the active id at -1 and changes no other
\* controller or hardware state.
C6_IdleOffNoOp ==
    [][\A c \in Callers :
        OffStep(c) /\ mActiveId = -1 =>
            /\ call'[c].status = "OK"
            /\ call'[c].cmds = <<>>
            /\ UNCHANGED <<mActiveId, mLongEffectScale, mAsyncHandle, task, hw>>
    ]_vars

\* C6, amended: off() with no effect active returns OK, issues no stop and
\* no GPIO write and leaves the active id at -1, the tasks and the playback
\* state as they are; it does reset the long-effect scale to 1.0, write the
\* gain 100 (to the flip only if the write to the base succeeded) and clear
\* the F0 offsets that are calibrated. Once the scale is 1.0 a further
\* off() changes no controller state.
C6_IdleOff ==
    [][\A c \in Callers :
        OffStep(c) /\ mActiveId = -1 =>
            /\ call'[c].status = "OK"
            /\ ~IssuedAny(call'[c].cmds, "stop")
            /\ ~IssuedAny(call'[c].cmds, "gpio")
            /\ OnlyReset(call'[c].cmds)
            /\ ResetIssued(call'[c].cmds)
            /\ mLongEffectScale' = 100
            /\ UNCHANGED <<mActiveId, mAsyncHandle, task, hw>>
            /\ mLongEffectScale = 100 => UNCHANGED mLongEffectScale
    ]_vars

\* off() with no effect active has reset the gain and cleared the F0 offsets
\* of both actuators
C6_Witness ==
    \E c \in Callers :
        /\ call[c].pc = "off_unlock"
        /\ call[c].status = "OK"
        /\ ~IssuedAny(call[c].cmds, "stop")
        /\ Done(call[c].cmds, "gain", Flip)
        /\ Issued(call[c].cmds, "f0", Flip)
        /\ mActiveId = -1
        /\ mLongEffectScale = 100

\* a stop or the GPIO reset of off() failed
StopFailed(cmds) ==
    \E i \in 1 .. Len(cmds) : cmds[i].n \in {"stop", "gpio"} /\ ~cmds[i].ok

\* the stop of the active effect is issued to each actuator in use, and the
\* GPIO reset is issued
StopsIssued(cmds) ==
    /\ \A a \in InUse :
          \E i \in 1 .. Len(cmds) :
              cmds[i].n = "stop" /\ cmds[i].a = a /\ cmds[i].v = mActiveId
    /\ Issued(cmds, "gpio", Gpio)

\* C7: off() with an effect active returns IllegalState whenever the GPIO
\* reset fails, even if every stop succeeded, and whenever the stop on the
\* base or on the flip fails; it clears the active id only when it returns
\* success, so after IllegalState the id is unchanged and the next off()
\* issues the stop for the same effect again.
C7_OffFailure ==
    [][\A c \in Callers :
        OffStep(c) /\ mActiveId >= 0 =>
            /\ StopsIssued(call'[c].cmds)
            /\ call'[c].status =
                  (IF StopFailed(call'[c].cmds) THEN "EX_ILLEGAL_STATE" ELSE "OK")
            /\ mActiveId' = (IF call'[c].status = "OK" THEN -1 ELSE mActiveId)
    ]_vars

\* off() is returning IllegalState for the GPIO reset alone: every stop
\* succeeded and the effect is still the active one
C7_Witness ==
    \E c \in Callers :
        /\ call[c].pc = "off_unlock"
        /\ call[c].status = "EX_ILLEGAL_STATE"
        /\ call[c].cause.n = "gpio"
        /\ \A a \in InUse : Done(call[c].cmds, "stop", a)
        /\ mIsDual
        /\ mActiveId >= WAVEFORM_MAX_PHYSICAL_INDEX

\* C8 as claimed: every off() with an effect active sends the stop to each
\* actuator in use, clears the GPIO output, resets the gain (scale 100,
\* long-effect scale 1.0) and clears the F0 offset, whatever the outcome of
\* the steps.
C8_OffDoesAll ==
    [][\A c \in Callers :
        OffStep(c) /\ mActiveId >= 0 =>
            /\ StopsIssued(call'[c].cmds)
            /\ \E i \in 1 .. Len(call'[c].cmds) :
                  /\ call'[c].cmds[i].n = "gain"
                  /\ call'[c].cmds[i].v = VOLTAGE_SCALE_MAX
            /\ mLongEffectScale' = 100
            /\ mF0Offset # 0 => Issued(call'[c].cmds, "f0", Base)
    ]_vars

\* C8, amended: every off() with an effect active sends the stop to each
\* actuator in use and then the GPIO reset, whatever the stops return. If
\* the GPIO reset succeeds it goes on to reset the long-effect scale to 1.0,
\* write the gain 100 (to the flip only if the write to the base succeeded)
\* and clear the calibrated F0 offsets; if the GPIO reset fails it returns
\* at once, with the scale, the gain and the F0 offsets untouched.
C8_OffStops ==
    [][\A c \in Callers :
        OffStep(c) /\ mActiveId >= 0 =>
            /\ StopsIssued(call'[c].cmds)
            /\ IF Done(call'[c].cmds, "gpio", Gpio)
               THEN /\ ResetIssued(call'[c].cmds)
                    /\ mLongEffectScale' = 100
               ELSE /\ ~IssuedAny(call'[c].cmds, "gain")
                    /\ ~IssuedAny(call'[c].cmds, "f0")
                    /\ UNCHANGED mLongEffectScale
    ]_vars

\* off() went on to the gain reset and the F0 clear although the stop of the
\* flip had failed
C8_Witness ==
    \E c \in Callers :
        /\ call[c].pc = "off_unlock"
        /\ call[c].cause.n = "stop"
        /\ Done(call[c].cmds, "stop", Base)
        /\ Issued(call[c].cmds, "stop", Flip)
        /\ Done(call[c].cmds, "gpio", Gpio)
        /\ Issued(call[c].cmds, "gain", Base)
        /\ Issued(call[c].cmds, "f0", Flip)
        /\ mActiveId >= 0

\* C9: the callback of an on() that returned success is invoked exactly
\* once, after the cleanup of the session has run and cleared the active id,
\* and outside mActiveId_mutex; whether the invocation fails or not leaves
\* the controller state alone; an on() that returns a failure spawns no
\* task, so its callback is never invoked.
C9_Callback ==
    [][/\ \A t \in TaskIds :
            /\ task'[t].cbCount <= 1
            /\ task'[t].pc = "done" => task'[t].cbCount = (IF task'[t].cb THEN 1 ELSE 0)
            /\ task'[t].cbCount # task[t].cbCount /\ task[t].pc # "done" =>
                /\ task[t].pc = "callback"
                /\ task[t].events = <<"accepted", "trigger", "stop", "cleanup">>
                /\ mActiveId = -1
                /\ mActiveId_mutex # TaskId(t)
                /\ UNCHANGED <<mActiveId, mActiveId_mutex, mLongEffectScale,
                               mAsyncHandle, call, hw>>
            /\ task[t].pc = "none" /\ task'[t].pc # "none" =>
                \E c \in Callers :
                    /\ call[c].pc = "on_spawn"
                    /\ call[c].status = ""
                    /\ call'[c].pc = "on_assign"
                    /\ call'[c].newTask = t
                    /\ task'[t].cb = call[c].cb
                    /\ task'[t].cbCount = 0
       /\ \A c \in Callers :
            /\ call'[c].op \in {"on", "perform"}
            /\ call'[c].pc \in {"ret", "on_unlock"}
            /\ call'[c].status \notin {"", "OK"}
            => UNCHANGED task
    ]_vars

\* the task of an on() with a callback has finished: the chain is complete
\* and the callback was invoked once
C9_Witness ==
    \E t \in TaskIds :
        /\ task[t].pc = "done"
        /\ task[t].cb
        /\ task[t].cbCount = 1
        /\ task[t].events = Chain
        /\ mAsyncHandle = t

\* off() has been called while the completion task is outstanding
OffDuringPlayback ==
    /\ Outstanding # {}
    /\ \E c \in Callers : call[c].pc = "off_unlock"

\* the task of mAsyncHandle has finished: the cleanup has run, the active id
\* is none, the callback, if there is one, has been invoked, and the
\* pending-check of the next on() finds the task ready
Settled ==
    /\ Outstanding = {}
    /\ task[mAsyncHandle].pc = "done"
    /\ IsPrefix(<<"accepted", "trigger", "stop", "cleanup">>, task[mAsyncHandle].events)
    /\ task[mAsyncHandle].cbCount = (IF task[mAsyncHandle].cb THEN 1 ELSE 0)
    /\ mActiveId = -1

ComposeSection(c, k) ==
    LET o == 4 + 8 * k
    IN  [volume |-> front(c, o + 1), index |-> front(c, o + 2),
         repeat |-> front(c, o + 3), flags |-> front(c, o + 5),
         delay |-> front(c, o + 6) * 256 + front(c, o + 7)]
\* the section count in the header of a composition
ComposeNSections(c) == front(c, 2)

ComposeReturned == enc.op = "compose" /\ enc.pc \in {"done", "perform"}
ComposeAccepted == enc.op = "compose" /\ enc.pc = "perform"
InDelayRange(d) == 0 <= d /\ d <= COMPOSE_DELAY_MAX_MS

\* C11: every accepted composition of 1..254 entries carries in its header
\* the number of entries, plus one if the first entry's delay is nonzero
C11_SectionCount ==
    ComposeAccepted =>
        /\ Len(composite) \in 1 .. COMPOSE_SIZE_MAX
        /\ ComposeNSections(ch) =
               Len(composite) + (IF composite[1].delayMs # 0 THEN 1 ELSE 0)

\* an accepted composition whose first entry has a nonzero delay and whose
\* header counts the entries only
C11_LeadingDelayLost ==
    /\ ComposeAccepted
    /\ composite[1].delayMs # 0
    /\ ComposeNSections(ch) = Len(composite)

\* C12: compose() rejects with InvalidArgument every composition with an
\* entry whose delay is outside 0..10000, at any position, the first
\* included (a composition rejected for an unsupported primitive ahead of
\* the delay counts as rejected)
C12_DelayRejected ==
    (ComposeReturned /\ \E i \in 1 .. Len(composite) :
                            ~InDelayRange(composite[i].delayMs))
    => /\ enc.pc = "done"
       /\ enc.status \in {"EX_ILLEGAL_ARGUMENT", "EX_UNSUPPORTED_OPERATION"}
       /\ (\A i \in 1 .. Len(composite) :
               composite[i].primitive \in mSupportedPrimitives)
          => enc.status = "EX_ILLEGAL_ARGUMENT"

\* a composition accepted with a leading delay of 65536 ms or more
C12_LongDelayAccepted ==
    /\ ComposeAccepted
    /\ composite[1].delayMs > COMPOSE_DELAY_MAX_MS

\* the example composition: a click without delay, then a no-op 50 ms later
ClickThenNoop == <<Entry(CLICK, 100, 0), Entry(NOOP, 100, SomeDelayMs)>>
ClickDuration == mEffectDurations[WAVEFORM_CLICK_INDEX + 1]

\* C13 as stated: composing [click delay 0, no-op delay 50] is accepted, with
\* section count two, no leading delay section, and total duration = click
\* duration + 50
C13_ExampleAccepted ==
    (ComposeReturned /\ composite = ClickThenNoop)
    => /\ ComposeAccepted
       /\ ComposeNSections(ch) = 2
       /\ ComposeSection(ch, 0).index = WAVEFORM_CLICK_INDEX
       /\ enc.totalDuration = ClickDuration + SomeDelayMs

\* C13: composing [click delay 0, no-op delay 50] is rejected with
\* InvalidArgument, the trailing no-op having no delay behind it; up to the
\* rejection the section count is two, no leading delay section is written
\* (the blob holds the click's section with the delay 50 and nothing else)
\* and the total duration is click duration + 50
C13_ExampleRejected ==
    (ComposeReturned /\ composite = ClickThenNoop)
    => /\ enc.pc = "done"
       /\ enc.status = "EX_ILLEGAL_ARGUMENT"
       /\ enc.size = 2
       /\ enc.totalDuration = ClickDuration + SomeDelayMs
       /\ ch.bytes = 4 + 8
       /\ ComposeSection(ch, 0) =
              [volume |-> intensityToVolLevel(mPrimitiveMaxScale[CLICK + 1],
                                              WAVEFORM_CLICK_INDEX),
               index |-> WAVEFORM_CLICK_INDEX, repeat |-> 0, flags |-> 0,
               delay |-> SomeDelayMs]
       /\ call[1] = IdleCall

C13_Witness ==
    /\ ComposeReturned
    /\ composite = ClickThenNoop
    /\ enc.i_curr = 1

\* the delay behind entry i: the next entry's delay, zero when there is none
FollowingDelay(i) ==
    IF i < Len(composite) THEN composite[i + 1].delayMs ELSE 0

\* a composition that passes every check but the one on no-ops
OtherwiseValid ==
    /\ ~InvalidSize(Len(composite))
    /\ \A i \in 1 .. Len(composite) :
        /\ InDelayRange(composite[i].delayMs)
        /\ composite[i].scale \in 0 .. 100
        /\ composite[i].primitive \in mSupportedPrimitives

\* the section of entry i in the blob
SectionOf(i) ==
    ComposeSection(ch, i - 1 + (IF composite[1].delayMs # 0 THEN 1 ELSE 0))

\* C14: of the compositions that are valid otherwise, compose() rejects with
\* InvalidArgument exactly those with a no-op whose following delay is zero;
\* in an accepted one a no-op is the section with volume 0, index 0 and the
\* following delay
C14_NoopRule ==
    (ComposeReturned /\ OtherwiseValid)
    => /\ (enc.pc = "done" /\ enc.status = "EX_ILLEGAL_ARGUMENT")
          <=> \E i \in 1 .. Len(composite) :
                  composite[i].primitive = NOOP /\ FollowingDelay(i) = 0
       /\ ComposeAccepted
          => \A i \in 1 .. Len(composite) :
                 composite[i].primitive = NOOP
                 => SectionOf(i) = [volume |-> 0, index |-> 0, repeat |-> 0,
                                    flags |-> 0, delay |-> FollowingDelay(i)]

C14_Witness ==
    /\ ComposeAccepted
    /\ OtherwiseValid
    /\ \E i \in 1 .. Len(composite) :
           composite[i].primitive = NOOP /\ FollowingDelay(i) = SomeDelayMs

\* the sizes the claim names: none, or more than 254 entries
InvalidSizeOf254 == composite = <<>> \/ Len(composite) > COMPOSE_SIZE_MAX

\* C15: compose() rejects the empty composition and every composition of
\* more than 254 entries, whatever they hold, before it builds a blob or
\* issues a hardware command
C15_SizeRejected ==
    (enc.op = "compose" /\ enc.pc # "compose" /\ InvalidSizeOf254)
    => /\ enc.pc = "done"
       /\ enc.status = "EX_ILLEGAL_ARGUMENT"
       /\ ch = NoChunk
       /\ call[1] = IdleCall
       /\ hwPlay = [a \in Actuators |-> "idle"]

C15_Witness ==
    /\ enc.op = "compose"
    /\ enc.pc = "done"
    /\ Len(composite) = COMPOSE_SIZE_MAX + 1
    /\ composite[1].delayMs = SomeDelayMs

\* --------------------------------------------------------- composePwle
\* the blob as the firmware reads it: the stream of the 24-bit words (the
\* first byte of every four is no part of it), taken in units of four bits
StreamByte(c, j) == front(c, 4 * (j \div 3) + 1 + (j % 3))
Nibble(c, n) ==
    IF n % 2 = 0 THEN StreamByte(c, n \div 2) \div 16
    ELSE StreamByte(c, n \div 2) % 16
RECURSIVE Field(_, _, _)
Field(c, n, k) ==
    IF k = 0 THEN 0 ELSE Field(c, n, k - 1) * 16 + Nibble(c, n + k - 1)

\* section k (from 0) of an envelope, behind the header of 52 bits
PwleSection(c, k) ==
    LET n == 13 + 12 * k
    IN  [delay |-> Field(c, n, 4), amplitude |-> Field(c, n + 4, 3),
         frequency |-> Field(c, n + 7, 3), flags |-> Field(c, n + 10, 2)]
PwleNSections(c) == Field(c, 11, 2)
\* the waveform length in milliseconds
PwleLengthMs(c) == (Field(c, 0, 6) - WT_LEN_CALCD) \div 8
\* the flags of a section as they are stored: (flags | 1) << 4
ChirpFlag(section) == (section.flags \div (16 * PWLE_CHIRP_BIT)) % 2 = 1
BrakeFlag(section) == (section.flags \div (16 * PWLE_BRAKE_BIT)) % 2 = 1

PwleReturned ==
    enc.op = "composePwle" /\ enc.capable /\ enc.pc \in {"done", "perform"}
PwleAccepted == enc.op = "composePwle" /\ enc.pc = "perform"
PwleRejected ==
    enc.op = "composePwle" /\ enc.pc = "done"
    /\ enc.status = "EX_ILLEGAL_ARGUMENT"

\* an amplitude as the device takes it
Ceiling(amplitude) == min(amplitude, CS40L26_PWLE_LEVEL_MAX)
\* the values a section stores for an amplitude and a frequency
AmplitudeCode(amplitude) == Scaled(Ceiling(amplitude), 2048, AmpDen)
FrequencyCode(frequency) == Scaled(frequency, 4, FreqDen)

\* primitive i is an active segment that starts where the active segment
\* before it ended
Follows(i) ==
    /\ i > 1
    /\ composite[i].tag = "active"
    /\ composite[i - 1].tag = "active"
    /\ Ceiling(composite[i].startAmplitude) = Ceiling(composite[i - 1].endAmplitude)
    /\ composite[i].startFrequency = composite[i - 1].endFrequency

\* the sections of primitive i, and the sections ahead of them
SectionsOf(i) == IF Follows(i) THEN 1 ELSE 2
RECURSIVE SectionsBefore(_)
SectionsBefore(i) ==
    IF i = 1 THEN 0 ELSE SectionsBefore(i - 1) + SectionsOf(i - 1)
\* the section that carries the duration of primitive i
MainSection(i) == PwleSection(ch, SectionsBefore(i) + SectionsOf(i) - 1)
\* the section ahead of it, where primitive i has two
PointSection(i) == PwleSection(ch, SectionsBefore(i))

ActiveOnes == {i \in 1 .. Len(composite) : composite[i].tag = "active"}
BrakingOnes == {i \in 1 .. Len(composite) : composite[i].tag = "braking"}

\* C16: an active segment whose (clamped) start amplitude and start
\* frequency equal the end amplitude and frequency of the active segment
\* before it has no set-point section ahead of its ramp; every other active
\* segment (the first, one behind a braking, one that starts elsewhere) has
\* exactly one, of zero duration, holding its start point
C16_SetPoint ==
    PwleAccepted =>
        /\ PwleNSections(ch) = SectionsBefore(Len(composite) + 1)
        /\ \A i \in ActiveOnes :
            /\ MainSection(i).delay = 4 * composite[i].duration
            /\ MainSection(i).amplitude = AmplitudeCode(composite[i].endAmplitude)
            /\ MainSection(i).frequency = FrequencyCode(composite[i].endFrequency)
            /\ ~Follows(i) =>
                /\ PointSection(i).delay = 0
                /\ PointSection(i).amplitude =
                       AmplitudeCode(composite[i].startAmplitude)
                /\ PointSection(i).frequency =
                       FrequencyCode(composite[i].startFrequency)

\* an accepted envelope with a ramp that follows on the clamped end of the
\* ramp before it, and so has no set-point
C16_Witness ==
    /\ PwleAccepted
    /\ Len(composite) = 2
    /\ Follows(2)
    /\ composite[1].endAmplitude # composite[2].startAmplitude
    /\ PwleNSections(ch) = 3

\* C17: the chirp flag of a ramp section is set exactly if the segment's
\* start and end frequency differ; it is clear in every set-point section
\* and in both sections of a braking, whatever segment came before
C17_ChirpFlag ==
    PwleAccepted =>
        /\ \A i \in ActiveOnes :
            /\ ChirpFlag(MainSection(i))
               <=> composite[i].startFrequency # composite[i].endFrequency
            /\ ~Follows(i) => ~ChirpFlag(PointSection(i))
        /\ \A i \in BrakingOnes :
            ~ChirpFlag(MainSection(i)) /\ ~ChirpFlag(PointSection(i))

\* an accepted envelope of a chirp and a ramp of constant frequency behind
\* it that needs no set-point
C17_Witness ==
    /\ PwleAccepted
    /\ Len(composite) = 2
    /\ Follows(2)
    /\ ChirpFlag(MainSection(1))
    /\ ~ChirpFlag(MainSection(2))

\* the sum of the durations of the first n primitives
RECURSIVE DurationSum(_)
DurationSum(n) ==
    IF n = 0 THEN 0 ELSE DurationSum(n - 1) + composite[n].duration

\* every primitive passes the checks of its own
PrimitiveValid(e) ==
    /\ e.duration \in 0 .. COMPOSE_PWLE_PRIMITIVE_DURATION_MAX_MS
    /\ e.tag = "active" =>
        /\ e.startAmplitude >= PWLE_LEVEL_MIN /\ e.startAmplitude <= PWLE_LEVEL_MAX
        /\ e.endAmplitude >= PWLE_LEVEL_MIN /\ e.endAmplitude <= PWLE_LEVEL_MAX
        /\ e.startFrequency >= Hz(1) /\ e.startFrequency <= Hz(1000)
        /\ e.endFrequency >= Hz(1) /\ e.endFrequency <= Hz(1000)
    /\ e.tag = "braking" => e.braking \in SupportedBraking
EnvelopeValid ==
    /\ composite # <<>>
    /\ \A i \in 1 .. Len(composite) : PrimitiveValid(composite[i])

RampThenBrake ==
    <<Active(SomeDurationMs, 0, HalfLevel, Hz(SomeFrequencyHz), Hz(SomeFrequencyHz)),
      Brake(SomeBrakeMs, BrakingNONE)>>

\* C18: the waveform length in the header of an accepted envelope is the sum
\* of the durations of its active and braking segments plus the cold-start
\* latency of 6 ms; an envelope whose sum plus latency is above 0x7FFFF is
\* rejected with InvalidArgument; [active(100, 0.0 -> 0.5, 50 -> 50 Hz),
\* braking(20, NONE)] is accepted with four sections and the length 126
C18_TotalDuration ==
    /\ PwleAccepted =>
        /\ PwleLengthMs(ch) = DurationSum(Len(composite)) + 6
        /\ enc.totalDuration = DurationSum(Len(composite)) + 6
    /\ (PwleReturned /\ EnvelopeValid
        /\ DurationSum(Len(composite)) + 6 > 524287) => PwleRejected
    /\ (PwleReturned /\ composite = RampThenBrake) =>
        /\ PwleAccepted
        /\ PwleNSections(ch) = 4
        /\ PwleLengthMs(ch) = SomeDurationMs + SomeBrakeMs + 6

C18_Witness ==
    /\ PwleAccepted
    /\ composite = RampThenBrake
    /\ PwleLengthMs(ch) = SomeDurationMs + SomeBrakeMs + 6

LowBits(nbits, val) == [i \in 1 .. nbits |-> (val \div Pow2(nbits - i)) % 2]

RECURSIVE WrittenBits(_)
WrittenBits(s) ==
    IF s = <<>> THEN <<>>
    ELSE LowBits(Head(s).nbits, Head(s).val) \o WrittenBits(Tail(s))

\* the bits of the 24-bit groups stored behind the header, in stream order
\* (each group is stored in four bytes, the first of them 0)
PayloadBits(c) ==
    [i \in 1 .. 24 * ((Len(c.head) - 4) \div 4) |->
        LET g == (i - 1) \div 24
            k == (i - 1) % 24
            byte == c.head[4 + 4 * g + 1 + (k \div 8) + 1]
        IN  (byte \div Pow2(7 - (k % 8))) % 2]

ReadBack(c, n) == SubSeq(PayloadBits(c), 1, n)

WriteFlushed == enc.op = "write" /\ enc.pc = "flushed"

FitsWidth(w) == w.val < Pow2(w.nbits)

InvalidArgumentStep ==
    /\ call[1].pc # "ret"
    /\ call'[1].pc = "ret"
    /\ call'[1].status = "EX_ILLEGAL_ARGUMENT"

\* C22: a call that returns InvalidArgument has found the invalid input
\* before any hardware I/O: it returns in its first step, has issued no
\* command (no gain write, no free-space query, no upload) and has left the
\* controller and the hardware as they were.
C22_InvalidBeforeIO ==
    [][InvalidArgumentStep
       => /\ call[1].pc = "idle"
          /\ call'[1].cmds = <<>>
          /\ UNCHANGED <<mActiveId, mLongEffectScale, hw>>]_vars

\* performEffect has written the gain and on() has asked for the free
\* space when on() returns InvalidArgument for a blob that does not fit
C22_RejectedAfterIO ==
    /\ call[1].pc = "ret"
    /\ call[1].op = "perform"
    /\ call[1].status = "EX_ILLEGAL_ARGUMENT"
    /\ call[1].cause.n = "get_free"
    /\ Issued(call[1].cmds, "get_free", Base)

\* ------------------------------------------------------------------- C23
\* position of the first command named n in cmds, Len(cmds) + 1 if none
FirstIssued(cmds, n) ==
    IF IssuedAny(cmds, n)
    THEN CHOOSE i \in 1 .. Len(cmds) :
            cmds[i].n = n /\ \A j \in 1 .. (i - 1) : cmds[j].n # n
    ELSE Len(cmds) + 1

\* the unlocked section of on() for a dynamic blob, either outcome
BlobPrepared == call[1].pc = "on_prepare" /\ call[1].ch # 0 /\ call'[1].pc # "on_prepare"

BlobTooLarge == BlobPrepared /\ call'[1].cause.n = "get_free"

\* C23: on() with a dynamic blob compares the blob with the free storage
\* of every actuator in use before any upload; if the blob is larger than
\* the free storage of the base or (dual) of the flip, on() fails, no
\* upload is issued to either actuator and the active id is unchanged.
C23_CheckedBeforeUpload ==
    [][/\ BlobTooLarge
          => /\ call'[1].pc = "ret"
             /\ call'[1].status # "OK"
             /\ ~IssuedAny(call'[1].cmds, "upload")
             /\ UNCHANGED <<owt, mActiveId>>
       /\ (BlobPrepared /\ IssuedAny(call'[1].cmds, "upload"))
          => \A a \in InUse :
                \E i \in 1 .. (FirstIssued(call'[1].cmds, "upload") - 1) :
                    /\ call'[1].cmds[i].n = "get_free"
                    /\ call'[1].cmds[i].a = a
                    /\ call'[1].cmds[i].ok]_vars

\* dual mode: the base has room, the flip has not, and on() has returned
C23_Witness ==
    /\ mIsDual
    /\ call[1].pc = "ret"
    /\ call[1].cause = Cmd("get_free", Flip, 0)
    /\ Done(call[1].cmds, "get_free", Base)
    /\ Issued(call[1].cmds, "get_free", Flip)
    /\ ~IssuedAny(call[1].cmds, "upload")
    /\ owt = [a \in Actuators |-> {}]

\* ------------------------------------------------------------------- C24
TaskWaits == {"poll_haptic", "poll_stop", "poll_stop_flip"}

Moved(t) == task'[t].pc # task[t].pc

\* C24: the completion task waits in a fixed order: the bounded poll for
\* the haptic state of the base, which lets the task go on whatever it saw;
\* then the wait for the stopped state of the base; then, in dual mode
\* only, the wait for the stopped state of the flip. The task takes
\* mActiveId_mutex and cleans up only when all of them have returned.
C24_WaitOrder ==
    [][\A t \in TaskIds :
        /\ (Moved(t) /\ task[t].pc = "poll_haptic") => task'[t].pc = "poll_stop"
        /\ (Moved(t) /\ task'[t].pc = "poll_stop") => task[t].pc = "poll_haptic"
        /\ (Moved(t) /\ task'[t].pc = "poll_stop_flip")
           => mIsDual /\ task[t].pc = "poll_stop" /\ hwPlay[Base] # "haptic"
        /\ (Moved(t) /\ task'[t].pc = "cleanup")
           => IF mIsDual
              THEN task[t].pc = "poll_stop_flip" /\ hwPlay[Flip] # "haptic"
              ELSE task[t].pc = "poll_stop" /\ hwPlay[Base] # "haptic"
        /\ (mActiveId_mutex' = TaskId(t) /\ mActiveId_mutex # TaskId(t))
           => task[t].pc = "cleanup"
        /\ (Moved(t) /\ task[t].pc \in TaskWaits)
           => /\ task'[t].pc \in TaskWaits \cup {"cleanup"}
              /\ UNCHANGED <<mActiveId, mActiveId_mutex, owt, gpioOut>>]_vars

\* dual mode: the task has gone past the haptic poll while the base had not
\* started to play, and has all three waits behind it
C24_Witness ==
    /\ mIsDual
    /\ \E t \in TaskIds :
        /\ task[t].pc = "cleanup"
        /\ mActiveId_mutex = NoHolder
        /\ hwPlay[Base] = "armed"

\* ------------------------------------------------------------------- C25
\* the step of the task that takes mActiveId_mutex
LockedCleanup(t) == task[t].pc = "cleanup" /\ Moved(t)

\* C25: for a session started with a dynamic slot (every session of
\* SpecOwt is), the completion task, under mActiveId_mutex, issues the erase
\* of that slot on the base and, in dual mode, on the flip, whatever ran
\* between the start and the cleanup, off() included.
C25_SlotErased ==
    [][\A t \in TaskIds :
        LockedCleanup(t)
        => /\ mActiveId_mutex' = TaskId(t)
           /\ mActiveId \in OwtSlots
           /\ task'[t].events = task[t].events \o EraseEvents]_vars

\* off() has cleared mActiveId while the task waited: the task holds the
\* mutex, has issued no erase, and the slot is still allocated
C25_EraseSkipped ==
    \E t \in TaskIds :
        /\ task[t].pc = "cleanup_clear"
        /\ mActiveId_mutex = TaskId(t)
        /\ mActiveId = -1
        /\ \A i \in 1 .. Len(task[t].events) : task[t].events[i] # "erase_base"
        /\ owt[Base] # {}

\* ------------------------------------------------------------------- C26
\* the statement of the cleanup section the task executes in this step
CleanupStatement(t, pc) == task[t].pc = pc /\ Moved(t)

\* As the specification states it: the active id is cleared last, with the
\* targeted erase, the GPIO reset and the count query with the sweep all
\* done before.
C26_ClearedLast ==
    [][\A t \in TaskIds :
        CleanupStatement(t, "cleanup_clear") => task'[t].pc = "unlock"]_vars

\* C26: in the cleanup of the completion task the active id is set to
\* "none" right after the targeted slot erase; the GPIO output reset and the
\* effect-count query with the recovery sweep on each actuator follow, with
\* the active id already cleared and the mutex still held.
C26_ClearedAfterErase ==
    [][\A t \in TaskIds :
        /\ CleanupStatement(t, "cleanup") => task'[t].pc = "cleanup_clear"
        /\ CleanupStatement(t, "cleanup_clear")
           => mActiveId' = -1 /\ task'[t].pc = "cleanup_gpio"
        /\ CleanupStatement(t, "cleanup_gpio")
           => mActiveId = -1 /\ task'[t].pc = "cleanup_sweep"
        /\ CleanupStatement(t, "cleanup_sweep")
           => mActiveId = -1 /\ task'[t].pc = "unlock"
        /\ (task[t].pc \in {"cleanup_clear", "cleanup_gpio", "cleanup_sweep"})
           => mActiveId_mutex = TaskId(t) /\ mActiveId_mutex' = TaskId(t)]_vars

\* the slot is erased and the active id cleared while the GPIO output is
\* still asserted and the sweep is still ahead
C26_Witness ==
    \E t \in TaskIds :
        /\ task[t].pc = "cleanup_gpio"
        /\ mActiveId = -1
        /\ mActiveId_mutex = TaskId(t)
        /\ \E i \in 1 .. Len(task[t].events) : task[t].events[i] = "erase_base"
        /\ mGPIOStatus
        /\ gpioOut

\* ------------------------------------------------------------------- C27
\* no task holds mActiveId_mutex while it waits in a poll, and whoever
\* holds it is at the end of its critical section, where nothing keeps it
\* from releasing the mutex
LockHeldBriefly ==
    /\ \A t \in TaskIds :
        /\ task[t].pc \in TaskWaits => mActiveId_mutex # TaskId(t)
        /\ mActiveId_mutex = TaskId(t) => task[t].pc = "unlock"
    /\ \A c \in Callers :
        mActiveId_mutex = CallerId(c) => call[c].pc \in {"on_unlock", "off_unlock"}

\* an off() of caller 1 is not held up by a task that waits in a poll
OffNotBlocked ==
    (/\ call[1].pc = "idle"
     /\ mActiveId_mutex = NoHolder
     /\ \E t \in TaskIds : task[t].pc \in TaskWaits)
    => ENABLED off(1)

\* C27: mActiveId_mutex is never held during a blocking hardware poll;
\* every write of mActiveId by on(), off() and the completion task is made
\* by the holder of the mutex; an off() issued while the task waits for
\* the stopped state gets the mutex and completes without waiting for the
\* playback to end.
C27_LockDiscipline ==
    [][/\ LockHeldBriefly
       /\ LockHeldBriefly'
       /\ OffNotBlocked
       /\ mActiveId' # mActiveId
          => /\ mActiveId_mutex = NoHolder
             /\ mActiveId_mutex' # NoHolder]_vars

\* off() has stopped the playback and holds the mutex while the task is
\* still waiting for the stopped state of the base
C27_Witness ==
    /\ call[1].op = "off"
    /\ call[1].pc = "off_unlock"
    /\ call[1].status = "OK"
    /\ mActiveId_mutex = CallerId(1)
    /\ mActiveId = -1
    /\ \E t \in TaskIds : task[t].pc = "poll_stop"

\* ------------------------------------------------------------------- C28
\* the play section of on() has run without a failure: on() returns ok
PlayedOk ==
    /\ call[1].pc = "on_play"
    /\ call'[1].pc = "on_unlock"
    /\ call'[1].status = ""

\* the trigger binding of the effect is armed on actuator a: by the edit of
\* the play section for a click or a light tick, by the unlocked section
\* for a blob and for the long/short slot
TriggerArmed(a) ==
    IF call[1].ch = 0 /\ call[1].effectIndex \in {WAVEFORM_CLICK_INDEX,
                                                  WAVEFORM_LIGHT_TICK_INDEX}
    THEN Done(call'[1].cmds, "edit_trigger", a)
    ELSE ButtonArmed

\* the GPIO path: binding armed on every actuator in use, then the GPIO
\* output asserted; the direct path: play of the effect on each of them
StartedAsStated ==
    IF mGPIOStatus
    THEN /\ \A a \in InUse : TriggerArmed(a)
         /\ call'[1].cmds[Len(call'[1].cmds)] = [n |-> "gpio", a |-> Gpio, v |-> 1, ok |-> TRUE]
    ELSE \A a \in InUse :
            \E i \in 1 .. Len(call'[1].cmds) :
                call'[1].cmds[i] = [n |-> "play", a |-> a,
                                    v |-> call[1].effectIndex, ok |-> TRUE]

\* C28: an on() that returns success has, with the GPIO path, armed the
\* trigger binding of the effect on every actuator in use and then asserted
\* the GPIO output, or, without it, issued the play command of the effect
\* to every actuator in use; for a blob, a long or short vibration, a click
\* and a light tick, in single and in dual mode.
C28_Triggered == [][PlayedOk => StartedAsStated]_vars

\* one actuator with the GPIO path: a long vibration is started by the
\* GPIO output alone, its trigger binding not armed
C28_Unarmed ==
    /\ ~mIsDual
    /\ mGPIOStatus
    /\ call[1].op = "on"
    /\ call[1].pc = "on_unlock"
    /\ call[1].status = ""
    /\ mActiveId = WAVEFORM_LONG_VIBRATION_EFFECT_INDEX
    /\ call[1].cmds = <<[n |-> "gpio", a |-> Gpio, v |-> 1, ok |-> TRUE]>>
    /\ gpioOut

\* ------------------------------------------------------------------- C29
\* the command named n failed on the base in the section just run
BaseFailed(n) ==
    /\ call'[1].cmds # call[1].cmds
    /\ Issued(call'[1].cmds, n, Base)
    /\ ~Done(call'[1].cmds, n, Base)

\* C29: in dual mode, when a command to the base fails inside a mirrored
\* operation (the stop of off(), the play or the edit of on(), the gain
\* write of setEffectAmplitude()), the same command is not issued to the
\* flip, and the operation returns the failure at once.
C29_ShortCircuit ==
    [][mIsDual
       => /\ \A n \in {"stop", "play", "edit", "edit_trigger"} :
               BaseFailed(n)
               => /\ ~Issued(call'[1].cmds, n, Flip)
                  /\ call'[1].status = "EX_ILLEGAL_STATE"
                  /\ call'[1].cmds[Len(call'[1].cmds)].a = Base
          /\ BaseFailed("gain") => ~Issued(call'[1].cmds, "gain", Flip)]_vars

\* off() has told the flip to stop after the stop of the base had failed
C29_FlipStoppedAnyway ==
    /\ mIsDual
    /\ call[1].op = "off"
    /\ call[1].pc = "off_unlock"
    /\ Issued(call[1].cmds, "stop", Base)
    /\ ~Done(call[1].cmds, "stop", Base)
    /\ Done(call[1].cmds, "stop", Flip)
    /\ call[1].status = "EX_ILLEGAL_STATE"

\* ------------------------------------------------------------------- C30
\* the sum of every entry's delay and of the duration of every primitive
\* that is not a no-op, as an integer
RECURSIVE ExactDuration(_)
ExactDuration(s) ==
    IF s = <<>> THEN 0
    ELSE Head(s).delayMs
         + (IF Head(s).primitive # NOOP
            THEN mEffectDurations[getPrimitiveDetails(Head(s).primitive).effectIndex + 1]
            ELSE 0)
         + ExactDuration(Tail(s))

DelaysInRange == \A i \in 1 .. Len(composite) : InDelayRange(composite[i].delayMs)

\* C30: for every composition compose() accepts (up to 254 entries, delays
\* up to 10000 ms), the total duration it has accumulated is the exact sum
\* of the leading delay, the duration of every primitive that is not a
\* no-op and every inter-step delay, without wrap-around.
C30_ExactTotal ==
    (ComposeAccepted /\ DelaysInRange)
    => enc.totalDuration = ExactDuration(composite)

\* an accepted composition whose durations add up to more than 65535 ms:
\* the total has wrapped around
C30_Wrapped ==
    /\ ComposeAccepted
    /\ DelaysInRange
    /\ ExactDuration(composite) > 65535
    /\ enc.totalDuration = ExactDuration(composite) - 65536

\* ------------------------------------------------------------------- C31
\* the loop of composePwle() stands behind primitive i
LoopBehind(i) ==
    /\ enc.op = "composePwle"
    /\ enc.pc = "pwle_loop"
    /\ enc.i_curr = i
    /\ i >= 1

\* a braking primitive composePwle() has to refuse
BrakingRefused(e) ==
    /\ e.tag = "braking"
    /\ e.braking \notin SupportedBraking
       \/ e.duration > COMPOSE_PWLE_PRIMITIVE_DURATION_MAX_MS

SegmentsWritten(c) == (6 * c.bytes + c.cachebits - 52) \div 48

PwleAtWork == enc.op = "composePwle" /\ ch # NoChunk

GlobalAmplitudeStep(c) ==
    /\ call[c].pc = "idle"
    /\ \/ call'[c].op = "on" /\ call'[c].cause.n # "timeout"
       \/ call'[c].op = "off" /\ call'[c].cause.n # "gpio"
       \/ call'[c].op = "setAmplitude"
          /\ call'[c].status \in {"OK", "EX_ILLEGAL_STATE"}

\* the gain v is written to actuator a, with whatever outcome
GainWritten(cmds, a, v) ==
    \E i \in 1 .. Len(cmds) : cmds[i].n = "gain" /\ cmds[i].a = a /\ cmds[i].v = v

\* C33: every call of setGlobalAmplitude writes a gain to the primary
\* actuator and, in dual mode, the same gain to the secondary, whatever the
\* write to the primary returns; with set = false (off()) the gain is 100
\* and the long-effect scale is 1.0 afterwards
C33_GainMirrored ==
    [][\A c \in Callers :
        GlobalAmplitudeStep(c) =>
            /\ \E v \in 0 .. 100 :
                /\ GainWritten(call'[c].cmds, Base, v)
                /\ mIsDual => GainWritten(call'[c].cmds, Flip, v)
            /\ call'[c].op = "off" =>
                /\ GainWritten(call'[c].cmds, Base, VOLTAGE_SCALE_MAX)
                /\ mLongEffectScale' = 100
    ]_vars

\* in dual mode a call has run setGlobalAmplitude, the write of the gain to
\* the primary failed, and no gain was written to the secondary
C33_SecondarySkipped ==
    \E c \in Callers :
        /\ mIsDual
        /\ call[c].op \in {"on", "off", "setAmplitude"}
        /\ \E i \in 1 .. Len(call[c].cmds) :
            /\ call[c].cmds[i].n = "gain"
            /\ call[c].cmds[i].a = Base
            /\ ~call[c].cmds[i].ok
        /\ ~Issued(call[c].cmds, "gain", Flip)

SectionsStored(c) == (c.bytes - 4) \div 8

\* C35: for every accepted composition, whatever click volume levels the
\* calibration holds, the section count in the header is the number of
\* sections the blob holds: no constructComposeSegment call of an accepted
\* composition failed its range check and lost its section
C35_CountIsStored ==
    ComposeAccepted => ComposeNSections(ch) = SectionsStored(ch)

\* with a calibrated click maximum of 120 the click of an accepted
\* composition has the volume level 114 and is not stored: the header
\* counts two sections, the blob holds the leading delay alone
C35_SegmentDropped ==
    /\ ComposeAccepted
    /\ mClickEffectVol = <<1, HighClickVolMax>>
    /\ composite = <<Entry(CLICK, 100, SomeDelayMs)>>
    /\ intensityToVolLevel(mPrimitiveMaxScale[CLICK + 1], WAVEFORM_CLICK_INDEX)
           > VOLTAGE_SCALE_MAX
    /\ ComposeNSections(ch) = 2
    /\ SectionsStored(ch) = 1
    /\ ComposeSection(ch, 0).delay = SomeDelayMs

\* ------------------------------------------------------------------- C36
\* the step in which caller 1 calls on(timeoutMs, callback)
TimedStep(timeoutMs) == \E cb \in BOOLEAN : OnTimed(1, timeoutMs, cb)

\* the step in which on() leaves its unlocked section
PreparedStep ==
    /\ call[1].pc = "on_prepare"
    /\ call[1].op = "on"
    /\ call'[1].pc # "on_prepare"

\* C36: on(timeoutMs) returns InvalidArgument for every timeoutMs above
\* 65535 and every negative one, with no hardware command issued; for every
\* other timeoutMs it takes the short-vibration slot below 50 ms and the
\* long-vibration slot from 50 ms on, and the duration it writes to the slot
\* is timeoutMs + 6 if that is at most 65535 and timeoutMs if not: a value
\* of 16 bits, written as it is
C36_TimedOn ==
    [][/\ \A timeoutMs \in EdgeTimeouts :
            TimedStep(timeoutMs) =>
                IF timeoutMs < 0 \/ timeoutMs > 65535
                THEN /\ call'[1].pc = "ret"
                     /\ call'[1].status = "EX_ILLEGAL_ARGUMENT"
                     /\ call'[1].cmds = <<>>
                     /\ UNCHANGED hw
                ELSE /\ call'[1].status # "EX_ILLEGAL_ARGUMENT"
                     /\ call'[1].pc = "on_prepare" =>
                         /\ call'[1].effectIndex =
                                (IF timeoutMs < 50
                                 THEN WAVEFORM_SHORT_VIBRATION_EFFECT_INDEX
                                 ELSE WAVEFORM_LONG_VIBRATION_EFFECT_INDEX)
                         /\ call'[1].timeoutMs =
                                (IF timeoutMs + 6 <= 65535 THEN timeoutMs + 6
                                 ELSE timeoutMs)
       /\ PreparedStep =>
            /\ Issued(call'[1].cmds, "edit", Base)
            /\ \A i \in 1 .. Len(call'[1].cmds) :
                call'[1].cmds[i].n = "edit" =>
                    /\ call'[1].cmds[i].v = call[1].timeoutMs
                    /\ call'[1].cmds[i].v <= 65535
    ]_vars

\* on(65530) has written the duration 65530, without the latency, to the
\* long-vibration slot of the base
C36_Witness ==
    /\ call[1].op = "on"
    /\ call[1].pc = "on_play"
    /\ call[1].effectIndex = WAVEFORM_LONG_VIBRATION_EFFECT_INDEX
    /\ \E i \in 1 .. Len(call[1].cmds) :
        /\ call[1].cmds[i].n = "edit"
        /\ call[1].cmds[i].a = Base
        /\ call[1].cmds[i].ok
        /\ call[1].cmds[i].v = MAX_TIME_MS - MAX_COLD_START_LATENCY_MS + 1

\* ------------------------------------------------------------------- C37
\* all bits given to write() since construction: the header of a
\* composition chunk and the scripted writes
BitsWritten == 24 + Len(WrittenBits(composite))

\* the step in which the script calls flush()
FlushStep == enc.op = "write" /\ enc.pc = "write" /\ enc'.pc = "flushed"

\* C37 as stated: after flush() the stored bytes are the smallest whole
\* number of bytes that holds all bits written so far
C37_ByteBoundary ==
    WriteFlushed => ch.bytes = (BitsWritten + 7) \div 8

\* C37: flush() pads the pending bits with zeros up to the next 24-bit word
\* and stores that word in four bytes: after flush the stored bytes are four
\* for every 24 bits written or begun, the bits behind the written ones are
\* zero, and a flush with no pending bits stores nothing
C37_WordBoundary ==
    [][FlushStep =>
        /\ ch'.bytes = 4 * ((BitsWritten + 23) \div 24)
        /\ Len(ch'.head) = ch'.bytes
        /\ ch'.cachebits = 0
        /\ ch'.ret = "OK"
        /\ \A i \in Len(WrittenBits(composite)) + 1 .. Len(PayloadBits(ch')) :
            PayloadBits(ch')[i] = 0
        /\ ch.cachebits = 0 => (ch'.head = ch.head /\ ch'.bytes = ch.bytes)
    ]_vars

\* eight bits written behind the header and flushed: eight bytes are stored
\* where five hold the 32 bits written
C37_Witness ==
    /\ WriteFlushed
    /\ BitsWritten = 32
    /\ ch.bytes = 8
    /\ Len(ch.head) = 8

\* ------------------------------------------------------------------- C38
\* the bytes of the stored buffer other than those at the offsets in skip
SameBytesBut(c, d, skip) ==
    /\ Len(d.head) = Len(c.head)
    /\ \A k \in 0 .. Len(c.head) - 1 : k \notin skip => front(d, k) = front(c, k)

\* the write cursor, the byte count and the cache of the chunk
Cursor(c) == <<c.current, c.bytes, c.cache, c.cachebits, c.stray>>

\* C38: updateNSection(n) on a flushed envelope chunk with 0 <= n <= 127
\* puts the high nibble of n into bits 0-3 of byte 7 and the low nibble of n
\* into bits 4-7 of byte 9, which are bits 44 .. 51 of the stream, where the
\* constructor wrote the placeholder; no other bit of the buffer changes;
\* with n > 127 it returns EINVAL and changes no byte
C38_SectionCount ==
    [][\A n \in SectionCounts :
        (ChunkSectionsWith(n) /\ ch.waveformType = WAVEFORM_PWLE) =>
            /\ Cursor(ch') = Cursor(ch)
            /\ IF n > 127
               THEN /\ ch'.ret = "EINVAL"
                    /\ ch'.head = ch.head
               ELSE /\ ch'.ret = "OK"
                    /\ front(ch', 7) % 16 = n \div 16
                    /\ front(ch', 9) \div 16 = n % 16
                    /\ front(ch', 7) \div 16 = front(ch, 7) \div 16
                    /\ front(ch', 9) % 16 = front(ch, 9) % 16
                    /\ SameBytesBut(ch, ch', {7, 9})
                    /\ PwleNSections(ch) = 0
                    /\ PwleNSections(ch') = n
    ]_vars

\* the count 127 in an envelope chunk that holds a braking segment: 0x7 in
\* the low half of byte 7, 0xF in the high half of byte 9, whose low half
\* holds the top four bits of the segment's duration
C38_Witness ==
    /\ enc.op = "chunk"
    /\ enc.pc = "counted"
    /\ ch.waveformType = WAVEFORM_PWLE
    /\ ch.ret = "OK"
    /\ ch.bytes = 20
    /\ front(ch, 7) = 7
    /\ front(ch, 9) = 240 + (4 * SomeBrakeMs) \div Pow2(12)
    /\ PwleNSections(ch) = 127

\* ------------------------------------------------------------------- C39
\* the 24-bit length field of an envelope chunk: bits 0 .. 23 of the stream
WLength(c) == Field(c, 0, 6)
Bit(v, k) == (v \div Pow2(k)) % 2

\* what updateWLength(ms) does where it accepts ms
LengthWritten(c, d, ms) ==
    /\ d.ret = "OK"
    /\ WLength(d) % Pow2(22) = ms * 8
    /\ Bit(WLength(d), 23) = 1
    /\ Bit(WLength(d), 22) = 0
    /\ front(d, 0) = 0
    /\ SameBytesBut(c, d, 0 .. 3)

LengthRefused(c, d, error) ==
    /\ d.ret = error
    /\ d.head = c.head

\* C39 as stated: every ms whose ms x 8 exceeds 19 bits is rejected
C39_TicksIn19Bits ==
    [][\A ms \in DurationsMs :
        ChunkLengthWith(ms) =>
            /\ Cursor(ch') = Cursor(ch)
            /\ IF ch.waveformType # WAVEFORM_PWLE THEN LengthRefused(ch, ch', "EDOM")
               ELSE IF ms * 8 >= Pow2(19) THEN LengthRefused(ch, ch', "EINVAL")
               ELSE LengthWritten(ch, ch', ms)
    ]_vars

\* C39: updateWLength(ms) on an envelope chunk rejects every ms that exceeds
\* 19 bits (ms > 524287, whose ms x 8 would exceed 22 bits) with EINVAL, is
\* rejected with EDOM on a composition chunk, and for every accepted ms
\* writes ms x 8 into bits 0 .. 21 of the length field with bit 23 set and
\* bit 22 clear, leaving all bytes behind the length field unchanged
C39_MsIn19Bits ==
    [][\A ms \in DurationsMs :
        ChunkLengthWith(ms) =>
            /\ Cursor(ch') = Cursor(ch)
            /\ IF ch.waveformType # WAVEFORM_PWLE THEN LengthRefused(ch, ch', "EDOM")
               ELSE IF ms > Pow2(19) - 1 THEN LengthRefused(ch, ch', "EINVAL")
               ELSE LengthWritten(ch, ch', ms)
    ]_vars

\* 65536 ms, whose 524288 ticks need 20 bits, accepted by an envelope chunk
C39_Witness ==
    /\ enc.op = "chunk"
    /\ enc.pc = "timed"
    /\ ch.waveformType = WAVEFORM_PWLE
    /\ ch.ret = "OK"
    /\ WLength(ch) = WT_LEN_CALCD + Pow2(19)
    /\ PwleLengthMs(ch) = 65536

\* ------------------------------------------------------------------- C40
ScaleReturned == enc.op = "scale" /\ enc.pc = "scaled"

\* C40: amplitudeToScale(amplitude, maximum) of a non-negative amplitude is
\* round(amplitude / maximum x 100) where that is at most 100 and 100 where
\* it is more, and 100 when maximum is 0; the result lies in 0 .. 100; and
\* after a result of 100 the function applied to result / 100 x maximum
\* returns 100 again
C40_Scale ==
    ScaleReturned =>
        LET amplitude == composite[1].amplitude
            maximum == composite[1].maximum
        IN  /\ enc.size \in 0 .. 100
            /\ maximum = 0 => enc.size = 100
            /\ maximum # 0 =>
                enc.size = min(100, (200 * amplitude + maximum) \div (2 * maximum))
            /\ enc.header_count = 1 => enc.size = 100

\* an amplitude above the maximum 3 has given 100, and so has the maximum
C40_Witness ==
    /\ ScaleReturned
    /\ enc.header_count = 1
    /\ enc.size = 100
    /\ composite[1].maximum = 3
    /\ composite[1].first = 200
    /\ composite[1].amplitude = 3

====
